---------------------------- MODULE Spec2Model ----------------------------
(***************************************************************************)
(* A model of the normalization-and-mapping pipeline of cs_kit:            *)
(*   cs_kit/normalizer/parser.py   (parse_ocsf and the field extractors)   *)
(*   cs_kit/normalizer/mapping.py  (load_mapping, apply_mapping)           *)
(*                                                                         *)
(* A Python str is a sequence of one-character strings, so that            *)
(* concatenation, lower() and strip() are computed and not assumed.        *)
(* Python's None is the value None below.                                  *)
(***************************************************************************)
EXTENDS Integers, Sequences, FiniteSets, TLC

VARIABLES
    mapping_files,   \* the mappings directory: map_id -> content of <map_id>.yaml
    findings,        \* apply_mapping: the findings argument
    map_ids,         \* apply_mapping: the map_ids argument
    m_pc,            \* apply_mapping: "call" before the call, "done" after it
    m_result,        \* apply_mapping: what the call returned or raised
    raw_finding,     \* the raw record handed to an extraction function
    x_pc,            \* "input" before a function is applied, else its name
    x_result,        \* what the function returned or raised
    file,            \* parse_ocsf: what the file system holds at path
    p_pc,            \* parse_ocsf: "open", "loop", "returned" or "raised"
    p_data,          \* parse_ocsf: data, the loaded list of raw records
    p_i,             \* parse_ocsf: the index i of the record processed next
    parsed,          \* parse_ocsf: the local list findings
    p_result,        \* parse_ocsf: the list returned or the error raised
    s_findings,      \* summarize: the findings argument
    s_prefix,        \* framework_score: the framework_prefix argument
    s_pc,            \* "input" before a function is applied, else its name
    s_result,        \* what the function returned or raised
    r_resource_id,   \* _extract_resource_type: the resource_id argument
    r_pc,            \* "input" before the function is applied, else "returned"
    r_result,        \* what _extract_resource_type returned
    scan_results,    \* web: scan_id -> the status stored in scan_results
    tasks,           \* web: scan_id -> where its run_scan_async task stands
    loop_running,    \* web: whether start_scan is called inside a running event loop
    response         \* web: the HTTP status code of the last response

mvars == <<mapping_files, findings, map_ids, m_pc, m_result>>
xvars == <<raw_finding, x_pc, x_result>>
pvars == <<file, p_pc, p_data, p_i, parsed, p_result>>
svars == <<s_findings, s_prefix, s_pc, s_result>>
rvars == <<r_resource_id, r_pc, r_result>>
wvars == <<scan_results, tasks, loop_running, response>>
vars == <<mvars, xvars, pvars, svars, rvars, wvars>>

-----------------------------------------------------------------------------
(* Python values *)

\* None: a one-element sequence that is no string of the model, so that an
\* optional str stays comparable with a str.
None == <<"$None">>

\* bool(x) of an optional str: None and "" are false.
Truthy(s) == s /= None /\ s /= <<>>

\* All sequences over S of length at most n.
SeqsUpTo(S, n) == UNION {[1..k -> S] : k \in 0..n}

\* What a call does: it returns a value, or raises an exception, which may
\* carry its message as the sequence of the pieces it is formatted from.
Ok(value) == [raised |-> FALSE, value |-> value]
Raise(e) == [raised |-> TRUE, error |-> e]
Error(type, message) == [raised |-> TRUE, error |-> type, message |-> message]

\* The code points of the characters of the ids of the model.
CodePoint ==
    ("1" :> 49) @@ ("2" :> 50) @@ ("3" :> 51) @@ ("9" :> 57) @@ ("A" :> 65) @@ ("B" :> 66) @@ ("C" :> 67)
    @@ ("Z" :> 90)
    @@ ("_" :> 95) @@ ("a" :> 97) @@ ("b" :> 98)

\* s < t on str
RECURSIVE Less(_, _)
Less(s, t) ==
    IF s = <<>> THEN t /= <<>>
    ELSE IF t = <<>> THEN FALSE
    ELSE IF s[1] = t[1] THEN Less(Tail(s), Tail(t))
    ELSE CodePoint[s[1]] < CodePoint[t[1]]

\* sorted(a set of str)
RECURSIVE sorted(_)
sorted(S) ==
    IF S = {} THEN <<>>
    ELSE LET first == CHOOSE x \in S : \A y \in S \ {x} : Less(x, y) IN
         <<first>> \o sorted(S \ {first})

-----------------------------------------------------------------------------
(* Bounds *)

MaxRules == 2      \* rules in one rule-set file
MaxMapIds == 2     \* length of the map_ids argument
MaxFindings == 1   \* length of the findings argument
MaxKeys == 2       \* candidate paths a raw record gives a value
MaxPad == 1        \* whitespace characters around a raw severity or status
MaxRecords == 3    \* elements of the JSON array in the file
MaxTimeTokens == 2 \* tokens of a raw time string
MaxSummary == 3    \* length of the findings argument of summarize.py

-----------------------------------------------------------------------------
(* JSON values as json.load returns them.  A dict is the sequence of its   *)
(* <<key, value>> pairs in insertion order; a key is one token.            *)

JNull == [t |-> "NoneType"]
JStr(s) == [t |-> "str", v |-> s]
JNum(n) == [t |-> "int", v |-> n]
JBool(b) == [t |-> "bool", v |-> b]
JList(l) == [t |-> "list", v |-> l]
JDict(d) == [t |-> "dict", v |-> d]

\* isinstance(x, dict) and key in x
HasKey(x, key) == x.t = "dict" /\ \E k \in DOMAIN x.v : x.v[k][1] = key

\* x[key] for a dict x that has the key
Item(x, key) == x.v[CHOOSE k \in DOMAIN x.v : x.v[k][1] = key][2]

\* bool(x)
Bool(x) ==
    CASE x.t = "NoneType" -> FALSE
      [] x.t = "str" -> x.v /= <<>>
      [] x.t = "int" -> x.v /= 0
      [] x.t = "bool" -> x.v
      [] x.t = "list" -> x.v /= <<>>
      [] x.t = "dict" -> x.v /= <<>>

\* str(n) of a natural number
RECURSIVE Decimal(_)
Decimal(n) ==
    LET digit == <<"0","1","2","3","4","5","6","7","8","9">>[(n % 10) + 1] IN
    IF n < 10 THEN <<digit>> ELSE Append(Decimal(n \div 10), digit)

\* ", ".join(parts)
RECURSIVE Join(_)
Join(parts) ==
    IF parts = <<>> THEN <<>>
    ELSE IF Len(parts) = 1 THEN parts[1]
    ELSE parts[1] \o <<",", " ">> \o Join(Tail(parts))

\* repr(x) and str(x): they differ on a str only.
RECURSIVE Repr(_)
Repr(x) ==
    CASE x.t = "NoneType" -> <<"N","o","n","e">>
      [] x.t = "str" -> <<"'">> \o x.v \o <<"'">>
      [] x.t = "int" -> Decimal(x.v)
      [] x.t = "bool" -> IF x.v THEN <<"T","r","u","e">>
                         ELSE <<"F","a","l","s","e">>
      [] x.t = "list" ->
           <<"[">> \o Join([k \in DOMAIN x.v |-> Repr(x.v[k])]) \o <<"]">>
      [] x.t = "dict" ->
           <<"{">> \o Join([k \in DOMAIN x.v |->
                      <<"'", x.v[k][1], "'", ":", " ">> \o Repr(x.v[k][2])])
             \o <<"}">>

Str(x) == IF x.t = "str" THEN x.v ELSE Repr(x)

-----------------------------------------------------------------------------
(* cs_kit/normalizer/ocsf_models.py *)

critical == <<"c","r","i","t","i","c","a","l">>
high == <<"h","i","g","h">>
medium == <<"m","e","d","i","u","m">>
low == <<"l","o","w">>
informational == <<"i","n","f","o","r","m","a","t","i","o","n","a","l">>

\* OCSFFinding.severity: Literal[...] | None
SeverityLiteral == {critical, high, medium, low, informational}

\* OCSFEnrichedFinding(**finding.model_dump()): the fields of the finding are
\* copied; framework_refs is the dumped one when the finding carries it, and
\* the default empty list otherwise.
OCSFEnrichedFinding(finding) ==
    [field \in DOMAIN finding \cup {"framework_refs"} |->
        IF field \in DOMAIN finding THEN finding[field] ELSE <<>>]

-----------------------------------------------------------------------------
(* cs_kit/normalizer/mapping.py *)

\* The keys of a dict.
Keys(x) == {x.v[k][1] : k \in DOMAIN x.v}

\* The fields of the models: the required ones and the others.
MappingRuleRequired == {"source", "target", "title", "description"}
MappingRuleOptional == {"severity"}
MappingCategoryRequired == {"id", "name", "controls"}
ComplianceMappingRequired ==
    {"map_id", "name", "version", "description", "framework_type", "rules"}
ComplianceMappingOptional == {"provider", "categories", "metadata"}

\* A field declared str holds a str; a field declared str | None may be
\* missing or null.
IsStrField(x, key) == HasKey(x, key) /\ Item(x, key).t = "str"
IsOptionalStrField(x, key) ==
    HasKey(x, key) => Item(x, key).t \in {"str", "NoneType"}

\* Validation of one element of rules as a MappingRule (extra="forbid").
ValidMappingRule(x) ==
    /\ x.t = "dict"
    /\ MappingRuleRequired \subseteq Keys(x)
    /\ Keys(x) \subseteq MappingRuleRequired \cup MappingRuleOptional
    /\ \A key \in MappingRuleRequired : IsStrField(x, key)
    /\ IsOptionalStrField(x, "severity")

\* Validation of one element of categories as a MappingCategory.
ValidMappingCategory(x) ==
    /\ x.t = "dict"
    /\ Keys(x) = MappingCategoryRequired
    /\ IsStrField(x, "id") /\ IsStrField(x, "name")
    /\ Item(x, "controls").t = "list"
    /\ \A k \in DOMAIN Item(x, "controls").v :
         Item(x, "controls").v[k].t = "str"

\* The MappingRule built from a valid element of rules.
MappingRuleOf(x) ==
    [source |-> Item(x, "source").v,
     target |-> Item(x, "target").v,
     severity |-> IF HasKey(x, "severity") /\ Item(x, "severity").t = "str"
                  THEN Item(x, "severity").v ELSE None]

\* The MappingCategory built from a valid element of categories.
MappingCategoryOf(x) ==
    [name |-> Item(x, "name").v,
     controls |-> [k \in DOMAIN Item(x, "controls").v |->
                     Item(x, "controls").v[k].v]]

\* ComplianceMapping(**data) for a dict data (extra="forbid"). The metadata
\* of the model's files is null or a dict without fields of its own.
ComplianceMapping(data) ==
    IF /\ ComplianceMappingRequired \subseteq Keys(data)
       /\ Keys(data) \subseteq
            ComplianceMappingRequired \cup ComplianceMappingOptional
       /\ \A key \in ComplianceMappingRequired \ {"rules"} :
            IsStrField(data, key)
       /\ IsOptionalStrField(data, "provider")
       /\ Item(data, "rules").t = "list"
       /\ \A k \in DOMAIN Item(data, "rules").v :
            ValidMappingRule(Item(data, "rules").v[k])
       /\ HasKey(data, "categories") =>
            /\ Item(data, "categories").t = "list"
            /\ \A k \in DOMAIN Item(data, "categories").v :
                 ValidMappingCategory(Item(data, "categories").v[k])
       /\ HasKey(data, "metadata") =>
            Item(data, "metadata").t \in {"NoneType", "dict"}
    THEN Ok([map_id |-> Item(data, "map_id").v,
             rules |-> [k \in DOMAIN Item(data, "rules").v |->
                          MappingRuleOf(Item(data, "rules").v[k])],
             categories |->
               IF HasKey(data, "categories")
               THEN [k \in DOMAIN Item(data, "categories").v |->
                       MappingCategoryOf(Item(data, "categories").v[k])]
               ELSE <<>>])
    ELSE Raise("ValidationError")

\* list_available_mappings: the sorted stems of the files of the directory.
list_available_mappings(files) ==
    sorted({id \in DOMAIN files : files[id].kind /= "absent"})

\* load_mapping with a not-found message that lists no id
LoadMappingNoListing(files, map_id) ==
    IF files[map_id].kind = "absent"
    THEN Error("MappingNotFoundError",
               <<"Mapping '", map_id, "' not found. Available mappings: ",
                 <<>> >>)
    ELSE IF files[map_id].kind = "malformed"
    THEN Error("MappingLoadError", <<"Error parsing YAML file ", map_id>>)
    ELSE IF files[map_id].data.t /= "dict"
    THEN Error("MappingLoadError",
               <<"Error loading mapping ", map_id, ": ",
                 "Invalid YAML structure in ">>)
    ELSE LET mapping == ComplianceMapping(files[map_id].data) IN
         IF mapping.raised
         THEN Error("MappingLoadError",
                    <<"Error loading mapping ", map_id, ": ", mapping.error>>)
         ELSE mapping

\* load_mapping: the file <map_id>.yaml is absent, is no YAML, or holds the
\* value data. The error raised for a value that is no dict is caught by
\* "except Exception" and raised again as the same kind of error.
load_mapping(files, map_id) ==
    IF files[map_id].kind = "absent"
    THEN Error("MappingNotFoundError",
               <<"Mapping '", map_id, "' not found. Available mappings: ",
                 list_available_mappings(files)>>)
    ELSE IF files[map_id].kind = "malformed"
    THEN Error("MappingLoadError", <<"Error parsing YAML file ", map_id>>)
    ELSE IF files[map_id].data.t /= "dict"
    THEN Error("MappingLoadError",
               <<"Error loading mapping ", map_id, ": ",
                 "Invalid YAML structure in ">>)
    ELSE LET mapping == ComplianceMapping(files[map_id].data) IN
         IF mapping.raised
         THEN Error("MappingLoadError",
                    <<"Error loading mapping ", map_id, ": ", mapping.error>>)
         ELSE mapping

\* mappings[map_id] = mapping on a dict kept as a sequence of <<key, value>>
\* in insertion order: an existing key keeps its place.
RECURSIVE DictSet(_, _, _)
DictSet(d, k, v) ==
    IF d = <<>> THEN <<<<k, v>>>>
    ELSE IF d[1][1] = k THEN <<<<k, v>>>> \o Tail(d)
    ELSE <<d[1]>> \o DictSet(Tail(d), k, v)

\* The loading loop with the ids that fail to load left out
RECURSIVE LoadAllSkipping(_, _, _)
LoadAllSkipping(files, ids, mappings) ==
    IF ids = <<>> THEN [raised |-> FALSE, value |-> mappings]
    ELSE LET r == load_mapping(files, Head(ids)) IN
         IF r.raised THEN LoadAllSkipping(files, Tail(ids), mappings)
         ELSE LoadAllSkipping(files, Tail(ids),
                              DictSet(mappings, Head(ids), r.value))

\* for map_id in map_ids: mappings[map_id] = load_mapping(map_id)
RECURSIVE LoadAll(_, _, _)
LoadAll(files, ids, mappings) ==
    IF ids = <<>> THEN [raised |-> FALSE, value |-> mappings]
    ELSE LET r == load_mapping(files, Head(ids)) IN
         IF r.raised THEN r
         ELSE LoadAll(files, Tail(ids), DictSet(mappings, Head(ids), r.value))

\* check_to_controls[source_key].append({...}) for one rule
AddControlPrepend(table, map_id, rule) ==
    LET info == [framework |-> map_id, control |-> rule.target,
                 severity_override |-> rule.severity] IN
    IF rule.source \in DOMAIN table
    THEN [table EXCEPT ![rule.source] = <<info>> \o @]
    ELSE table @@ (rule.source :> <<info>>)

AddControl(table, map_id, rule) ==
    LET info == [framework |-> map_id, control |-> rule.target,
                 severity_override |-> rule.severity] IN
    IF rule.source \in DOMAIN table
    THEN [table EXCEPT ![rule.source] = Append(@, info)]
    ELSE table @@ (rule.source :> <<info>>)

\* for rule in mapping.rules: ...
RECURSIVE AddRules(_, _, _)
AddRules(table, map_id, rules) ==
    IF rules = <<>> THEN table
    ELSE AddRules(AddControl(table, map_id, Head(rules)), map_id, Tail(rules))

\* for map_id, mapping in mappings.items(): ...
RECURSIVE BuildLookup(_, _)
BuildLookup(table, mappings) ==
    IF mappings = <<>> THEN table
    ELSE BuildLookup(AddRules(table, mappings[1][1], mappings[1][2].rules),
                     Tail(mappings))

\* The empty dict.
EmptyDict == [k \in {} |-> <<>>]

\* The body of "for control_info in check_to_controls[source_key]", carried
\* over the remaining control infos: refs is framework_refs, sev is
\* enriched_finding.severity. The assignment to severity is validated
\* (validate_assignment=True), so a value outside the Literal raises.
ApplyOverrideAlways(sev, override) ==
    IF Truthy(override)
    THEN IF override \in SeverityLiteral
         THEN [raised |-> FALSE, value |-> override]
         ELSE [raised |-> TRUE, error |-> "ValidationError"]
    ELSE [raised |-> FALSE, value |-> sev]

ApplyOverride(sev, override) ==
    IF Truthy(override) /\ ~Truthy(sev)
    THEN IF override \in SeverityLiteral
         THEN [raised |-> FALSE, value |-> override]
         ELSE [raised |-> TRUE, error |-> "ValidationError"]
    ELSE [raised |-> FALSE, value |-> sev]

RECURSIVE ApplyControls(_, _, _)
ApplyControls(infos, refs, sev) ==
    IF infos = <<>> THEN [raised |-> FALSE, refs |-> refs, severity |-> sev]
    ELSE LET info == Head(infos)
             ref == info.framework \o <<":">> \o info.control
             s == ApplyOverride(sev, info.severity_override) IN
         IF s.raised THEN s
         ELSE ApplyControls(Tail(infos), Append(refs, ref), s.value)

\* str(x) inside an f-string: None is rendered as the text None.
Format(x) == IF x = None THEN <<"N","o","n","e">> ELSE x

\* source_key = f"{finding.product}:{finding.check_id}"
SourceKey(finding) == finding.product \o <<":">> \o Format(finding.check_id)

\* One iteration of "for finding in findings".
EnrichOneNoGuard(finding, table) ==
    LET enriched == OCSFEnrichedFinding(finding) IN
    IF SourceKey(finding) \in DOMAIN table
    THEN LET r == ApplyControls(table[SourceKey(finding)], <<>>,
                                enriched.severity) IN
         IF r.raised THEN r
         ELSE [raised |-> FALSE,
               value |-> [enriched EXCEPT !.framework_refs = r.refs,
                                          !.severity = r.severity]]
    ELSE [raised |-> FALSE, value |-> enriched]

\* One iteration with the references appended to those the finding carries
EnrichOneAccumulating(finding, table) ==
    LET enriched == OCSFEnrichedFinding(finding) IN
    IF Truthy(finding.check_id) /\ SourceKey(finding) \in DOMAIN table
    THEN LET r == ApplyControls(table[SourceKey(finding)],
                                enriched.framework_refs,
                                enriched.severity) IN
         IF r.raised THEN r
         ELSE [raised |-> FALSE,
               value |-> [enriched EXCEPT !.framework_refs = r.refs,
                                          !.severity = r.severity]]
    ELSE [raised |-> FALSE, value |-> enriched]

EnrichOne(finding, table) ==
    LET enriched == OCSFEnrichedFinding(finding) IN
    IF Truthy(finding.check_id) /\ SourceKey(finding) \in DOMAIN table
    THEN LET r == ApplyControls(table[SourceKey(finding)], <<>>,
                                enriched.severity) IN
         IF r.raised THEN r
         ELSE [raised |-> FALSE,
               value |-> [enriched EXCEPT !.framework_refs = r.refs,
                                          !.severity = r.severity]]
    ELSE [raised |-> FALSE, value |-> enriched]

\* apply_mapping's loop with each enriched finding put in front of the list
RECURSIVE EnrichAllReversed(_, _, _)
EnrichAllReversed(fs, table, enriched_findings) ==
    IF fs = <<>> THEN [raised |-> FALSE, value |-> enriched_findings]
    ELSE LET r == EnrichOne(Head(fs), table) IN
         IF r.raised THEN r
         ELSE EnrichAllReversed(Tail(fs), table,
                                <<r.value>> \o enriched_findings)

RECURSIVE EnrichAll(_, _, _)
EnrichAll(fs, table, enriched_findings) ==
    IF fs = <<>> THEN [raised |-> FALSE, value |-> enriched_findings]
    ELSE LET r == EnrichOne(Head(fs), table) IN
         IF r.raised THEN r
         ELSE EnrichAll(Tail(fs), table, Append(enriched_findings, r.value))

apply_mapping(files, fs, ids) ==
    LET loaded == LoadAll(files, ids, <<>>) IN
    IF loaded.raised THEN loaded
    ELSE EnrichAll(fs, BuildLookup(EmptyDict, loaded.value), <<>>)

-----------------------------------------------------------------------------
(* The inputs of apply_mapping *)

MappingRule(source, target, severity) ==
    [source |-> source, target |-> target, severity |-> severity]

\* The rules a file may hold. MappingRule.severity is str | None, so any
\* string loads: the empty string and a string outside the Literal too.
MappingRules ==
    {MappingRule(<<"p",":","a">>, <<"1">>, None),
     MappingRule(<<"p",":","a">>, <<"1">>, <<>>),
     MappingRule(<<"p",":","a">>, <<"2">>, high),
     MappingRule(<<"p",":","a">>, <<"3">>, critical),
     MappingRule(<<"p",":","a">>, <<"2">>, <<"x">>),
     MappingRule(<<"p",":","N","o","n","e">>, <<"1">>, high)}

\* The rule-set ids: the file B.yaml holds a rule set, A.yaml holds a rule set
\* or a mapping that lacks the required field rules, Z.yaml does not exist.
MapIdA == <<"A">>
MapIdB == <<"B">>
MapIdZ == <<"Z">>
MapIds == {MapIdA, MapIdB, MapIdZ}

\* The element of rules that states a rule.
RuleData(rule) ==
    JDict(<< <<"source", JStr(rule.source)>>,
             <<"target", JStr(rule.target)>>,
             <<"title", JStr(<<"t">>)>>,
             <<"description", JStr(<<"d">>)>> >>
          \o (IF rule.severity = None THEN <<>>
              ELSE << <<"severity", JStr(rule.severity)>> >>))

\* The required fields of a rule-set file, rules excepted.
Header(map_id) ==
    << <<"map_id", JStr(map_id)>>,
       <<"name", JStr(<<"n">>)>>,
       <<"version", JStr(<<"1">>)>>,
       <<"description", JStr(<<"d">>)>>,
       <<"framework_type", JStr(<<"c","i","s">>)>> >>

\* The file <map_id>.yaml that states the rules.
RuleSetFile(map_id, rules) ==
    [kind |-> "yaml",
     data |-> JDict(Append(Header(map_id),
                           <<"rules",
                             JList([k \in DOMAIN rules |-> RuleData(rules[k])])>>))]

RuleSetB == <<MappingRule(<<"p",":","a">>, <<"9">>, low)>>

\* The findings the Normalizer produces: check_id is None or a non-empty
\* string, severity is None or a Literal value.
Finding(product, check_id, severity) ==
    [product |-> product, check_id |-> check_id, severity |-> severity]

Findings ==
    {Finding(<<"p">>, <<"a">>, None),
     Finding(<<"p">>, <<"a">>, medium),
     Finding(<<"q">>, <<"a">>, None),
     Finding(<<"p">>, None, None)}

InitMapping ==
    /\ mapping_files \in
         {(MapIdA :> a) @@
          (MapIdB :> RuleSetFile(MapIdB, RuleSetB)) @@
          (MapIdZ :> [kind |-> "absent"]) :
             a \in {RuleSetFile(MapIdA, ra) :
                      ra \in SeqsUpTo(MappingRules, MaxRules)}
                   \cup {[kind |-> "yaml", data |-> JDict(Header(MapIdA))]}}
    /\ findings \in SeqsUpTo(Findings, MaxFindings)
    /\ map_ids \in SeqsUpTo(MapIds, MaxMapIds)
    /\ m_pc = "call"
    /\ m_result = <<>>
    /\ raw_finding = JDict(<<>>)
    /\ x_pc = "idle"
    /\ x_result = <<>>
    /\ file = <<>>
    /\ p_pc = "idle"
    /\ p_data = <<>>
    /\ p_i = 0
    /\ parsed = <<>>
    /\ p_result = <<>>
    /\ s_findings = <<>>
    /\ s_prefix = <<>>
    /\ s_pc = "idle"
    /\ s_result = <<>>
    /\ r_resource_id = <<>>
    /\ r_pc = "idle"
    /\ r_result = <<>>
    /\ scan_results = <<>>
    /\ tasks = <<>>
    /\ loop_running = FALSE
    /\ response = 0

ApplyMapping ==
    /\ m_pc = "call"
    /\ m_result' = apply_mapping(mapping_files, findings, map_ids)
    /\ m_pc' = "done"
    /\ UNCHANGED <<mapping_files, findings, map_ids, xvars, pvars, svars, rvars, wvars>>

\* apply_mapping called again with the enriched findings it returned and the
\* same map_ids.
ApplyMappingAgain ==
    /\ m_pc = "done"
    /\ ~m_result.raised
    /\ findings' = m_result.value
    /\ m_result' = apply_mapping(mapping_files, m_result.value, map_ids)
    /\ m_pc' = "again"
    /\ UNCHANGED <<mapping_files, map_ids, xvars, pvars, svars, rvars, wvars>>

NextMapping == ApplyMapping \/ ApplyMappingAgain

SpecMapping == InitMapping /\ [][NextMapping]_vars

-----------------------------------------------------------------------------
(* What the claims about apply_mapping speak of *)

\* The call returned a list of enriched findings.
Returned == m_pc = "done" /\ ~m_result.raised

\* Every requested rule set loads.
AllLoad ==
    \A k \in DOMAIN map_ids : ~load_mapping(mapping_files, map_ids[k]).raised

\* The rules the file of a rule set states.
FileRules(id) ==
    LET rules == Item(mapping_files[id].data, "rules").v IN
    [k \in DOMAIN rules |-> MappingRuleOf(rules[k])]

\* The requested ids without repetitions, in the order of first request.
RECURSIVE DistinctIds(_)
DistinctIds(ids) ==
    IF ids = <<>> THEN <<>>
    ELSE LET init == SubSeq(ids, 1, Len(ids) - 1)
             last == ids[Len(ids)] IN
         IF \E k \in DOMAIN init : init[k] = last
         THEN DistinctIds(init)
         ELSE Append(DistinctIds(init), last)

\* The rules of rule set id whose source is the finding's source key.
RuleMatches(finding, rule) ==
    /\ finding.check_id /= None
    /\ rule.source = finding.product \o <<":">> \o finding.check_id

MatchesIn(finding, id) ==
    LET IsMatch(rule) == RuleMatches(finding, rule) IN
    SelectSeq(FileRules(id), IsMatch)

\* The matching rules in match order: rule sets in the order requested, the
\* rules of one rule set in file order; each with the id of its rule set.
RECURSIVE MatchOrder(_, _)
MatchOrder(finding, ids) ==
    IF ids = <<>> THEN <<>>
    ELSE LET ms == MatchesIn(finding, Head(ids)) IN
         [k \in 1..Len(ms) |-> [id |-> Head(ids), rule |-> ms[k]]]
           \o MatchOrder(finding, Tail(ids))

Matches(finding) == MatchOrder(finding, DistinctIds(map_ids))

\* The override of the first match whose override satisfies Carries, or None.
FirstOverride(finding, Carries(_)) ==
    LET ms == Matches(finding)
        with == {k \in DOMAIN ms : Carries(ms[k].rule.severity)} IN
    IF with = {} THEN None
    ELSE ms[CHOOSE k \in with : \A j \in with : k <= j].rule.severity

NonNull(override) == override /= None
NonEmpty(override) == override /= None /\ override /= <<>>

\* C1 as stated: a returned finding whose severity was set keeps it; one whose
\* severity was unset gets the override of the first match that carries a
\* non-null override, and stays unset when no match carries one.
C1_SeverityFirstNonNull ==
    Returned =>
      \A i \in DOMAIN findings :
        m_result.value[i].severity =
          IF findings[i].severity /= None THEN findings[i].severity
          ELSE FirstOverride(findings[i], NonNull)

\* A finding whose first non-empty matching override is no Literal value:
\* assigning it raises.
BadOverride(finding) ==
    /\ finding.severity = None
    /\ LET first == FirstOverride(finding, NonEmpty) IN
       first /= None /\ first \notin SeverityLiteral

\* C1 amended: a finding whose severity was set keeps it; one whose severity
\* was unset gets the override of the first match whose override is non-empty
\* (neither null nor the empty string), later overrides never replacing it,
\* and stays unset when no match carries one; and the call raises a
\* validation error, returning nothing, exactly when every rule set loads and
\* such a first override of some finding is no canonical severity.
C1_SeverityFirstNonEmpty ==
    (m_pc = "done" /\ AllLoad) =>
      IF \E i \in DOMAIN findings : BadOverride(findings[i])
      THEN m_result.raised /\ m_result.error = "ValidationError"
      ELSE /\ ~m_result.raised
           /\ \A i \in DOMAIN findings :
                m_result.value[i].severity =
                  IF findings[i].severity /= None THEN findings[i].severity
                  ELSE FirstOverride(findings[i], NonEmpty)

\* C1's case: an unset severity, a first match overriding high and a later
\* one overriding critical; the finding comes back high.
C1_Witness ==
    /\ Returned
    /\ \E i \in DOMAIN findings :
         LET ms == Matches(findings[i]) IN
         /\ findings[i].severity = None
         /\ \E j, k \in DOMAIN ms :
              /\ j < k
              /\ ms[j].rule.severity = high
              /\ ms[k].rule.severity = critical
              /\ \A h \in 1..(j - 1) : ~NonEmpty(ms[h].rule.severity)
         /\ m_result.value[i].severity = high

\* The reference "<ruleSetId>:<control>" of each match, in match order.
ExpectedRefs(finding) ==
    LET ms == Matches(finding) IN
    [k \in DOMAIN ms |-> ms[k].id \o <<":">> \o ms[k].rule.target]

\* The distinct matching rules across the applied rule sets: a rule is the
\* k-th entry of the file of a requested id.
MatchingRules(finding) ==
    UNION {LET rules == FileRules(id) IN
           {<<id, k>> : k \in {j \in DOMAIN rules :
                                 RuleMatches(finding, rules[j])}} :
           id \in {map_ids[j] : j \in DOMAIN map_ids}}

\* C2: after apply_mapping every finding's framework_refs is exactly the
\* references of its matching rules, rule sets in the order requested and
\* rules in file order; as many as there are distinct matching rules; and the
\* empty list when nothing matches.
C2_FrameworkRefs ==
    Returned =>
      /\ Len(m_result.value) = Len(findings)
      /\ \A i \in DOMAIN findings :
           LET refs == m_result.value[i].framework_refs
               matching == MatchingRules(findings[i]) IN
           /\ refs = ExpectedRefs(findings[i])
           /\ Len(refs) = Cardinality(matching)
           /\ (matching = {} => refs = <<>>)

\* C2's case: two rule sets requested, the second-listed file first, and a
\* finding matched by two rules of one and one rule of the other.
C2_Witness ==
    /\ Returned
    /\ map_ids = <<MapIdB, MapIdA>>
    /\ \E i \in DOMAIN findings :
         /\ Len(MatchesIn(findings[i], MapIdA)) = 2
         /\ MatchesIn(findings[i], MapIdA)[1].target
              /= MatchesIn(findings[i], MapIdA)[2].target
         /\ Len(m_result.value[i].framework_refs) = 3
         /\ m_result.value[i].framework_refs[1] = <<"B", ":", "9">>

\* C3: a finding whose check_id is unset comes back with empty
\* framework_refs, whatever the rule sets hold.
C3_NoCheckIdNoRefs ==
    Returned =>
      \A i \in DOMAIN findings :
        findings[i].check_id = None =>
          m_result.value[i].framework_refs = <<>>

\* C3's case: a finding without check_id, enriched with a rule set that holds
\* a rule for the key its product and the text None would spell.
C3_Witness ==
    /\ Returned
    /\ \E i \in DOMAIN findings :
         /\ findings[i].check_id = None
         /\ \E j \in DOMAIN map_ids :
              \E k \in DOMAIN FileRules(map_ids[j]) :
                FileRules(map_ids[j])[k].source
                  = findings[i].product \o <<":","N","o","n","e">>
         /\ m_result.value[i].framework_refs = <<>>

-----------------------------------------------------------------------------
(* cs_kit/normalizer/parser.py: the field extractors *)

\* for key in keys: if isinstance(current, dict) and key in current: ...
RECURSIVE _get_nested_value(_, _)
_get_nested_value(data, keys) ==
    IF keys = <<>> THEN data
    ELSE IF HasKey(data, Head(keys))
         THEN _get_nested_value(Item(data, Head(keys)), Tail(keys))
         ELSE JNull

\* for location in locations: value = _get_nested_value(...);
\* if value: return str(value) ... return None
RECURSIVE TryLocations(_, _)
TryLocations(raw, locations) ==
    IF locations = <<>> THEN None
    ELSE LET value == _get_nested_value(raw, Head(locations)) IN
         IF Bool(value) THEN Str(value)
         ELSE TryLocations(raw, Tail(locations))

\* key in first_resource
Contains(first_resource, key) ==
    CASE first_resource.t = "dict" -> Ok(HasKey(first_resource, key))
      [] first_resource.t = "str" ->
           Ok(\E k \in DOMAIN first_resource.v : first_resource.v[k] = key)
      [] first_resource.t = "list" ->
           Ok(\E k \in DOMAIN first_resource.v :
                first_resource.v[k] = JStr(<<key>>))
      [] OTHER -> Raise("TypeError")

\* str(first_resource[key])
Subscript(first_resource, key) ==
    IF first_resource.t = "dict" THEN Ok(Str(Item(first_resource, key)))
    ELSE Raise("TypeError")

\* if "uid" in first_resource: return str(first_resource["uid"]) ...
\* found is FALSE when no key of keys is in first_resource.
RECURSIVE FirstResourceKeys(_, _)
FirstResourceKeys(first_resource, keys) ==
    IF keys = <<>> THEN [raised |-> FALSE, found |-> FALSE]
    ELSE LET c == Contains(first_resource, Head(keys)) IN
         IF c.raised THEN c
         ELSE IF c.value
              THEN LET v == Subscript(first_resource, Head(keys)) IN
                   IF v.raised THEN v
                   ELSE [raised |-> FALSE, found |-> TRUE, value |-> v.value]
              ELSE FirstResourceKeys(first_resource, Tail(keys))

\* resources = raw_finding.get("resources", [])
\* if resources and len(resources) > 0: first_resource = resources[0]; ...
FromResources(raw, keys) ==
    LET resources == IF HasKey(raw, "resources") THEN Item(raw, "resources")
                     ELSE JList(<<>>) IN
    IF ~Bool(resources) THEN [raised |-> FALSE, found |-> FALSE]
    ELSE CASE resources.t = "list" -> FirstResourceKeys(resources.v[1], keys)
           [] resources.t = "str" ->
                FirstResourceKeys(JStr(<<resources.v[1]>>), keys)
           [] resources.t = "dict" -> Raise("KeyError")
           [] OTHER -> Raise("TypeError")

\* An extractor that looks into resources[0] first and then tries locations.
ExtractWithResources(raw, keys, locations) ==
    LET r == FromResources(raw, keys) IN
    IF r.raised THEN r
    ELSE IF r.found THEN Ok(r.value)
    ELSE Ok(TryLocations(raw, locations))

ResourceIdLocations ==
    << <<"resource", "uid">>, <<"resource", "id">>, <<"resource_uid">>,
       <<"resource_id">>, <<"arn">>, <<"resource_arn">> >>

_extract_resource_id(raw) ==
    ExtractWithResources(raw, <<"uid", "name">>, ResourceIdLocations)

AccountIdLocations ==
    << <<"cloud", "account", "uid">>, <<"cloud", "account", "id">>,
       <<"account_uid">>, <<"account_id">>, <<"account">> >>

_extract_account_id(raw) ==
    ExtractWithResources(raw, <<"account_uid">>, AccountIdLocations)

RegionLocations ==
    << <<"cloud", "region">>, <<"resource", "region">>, <<"region">> >>

_extract_region(raw) ==
    ExtractWithResources(raw, <<"region">>, RegionLocations)

CheckIdLocationsSwapped ==
    << <<"finding", "uid">>, <<"check_id">>, <<"finding", "id">>,
       <<"rule_id">>, <<"id">>, <<"uid">> >>

CheckIdLocations ==
    << <<"finding", "uid">>, <<"finding", "id">>, <<"check_id">>,
       <<"rule_id">>, <<"uid">>, <<"id">> >>

_extract_check_id(raw) == Ok(TryLocations(raw, CheckIdLocations))

TitleLocations ==
    << <<"finding", "title">>, <<"title">>, <<"summary">>, <<"name">> >>

_extract_title(raw) == Ok(TryLocations(raw, TitleLocations))

DescriptionLocations ==
    << <<"finding", "desc">>, <<"finding", "description">>,
       <<"description">>, <<"desc">>, <<"message">> >>

_extract_description(raw) == Ok(TryLocations(raw, DescriptionLocations))

RemediationLocations ==
    << <<"finding", "remediation", "desc">>,
       <<"finding", "remediation", "description">>,
       <<"remediation", "desc">>, <<"remediation", "description">>,
       <<"remediation">>, <<"recommendation">>, <<"fix">> >>

_extract_remediation(raw) == Ok(TryLocations(raw, RemediationLocations))

-----------------------------------------------------------------------------
(* cs_kit/normalizer/parser.py: severity and status normalization *)

pass == <<"p","a","s","s">>
fail == <<"f","a","i","l">>
not_applicable == <<"n","o","t","_","a","p","p","l","i","c","a","b","l","e">>

\* OCSFFinding.status: Literal[...] | None
StatusLiteral == {pass, fail, not_applicable, informational}

\* The lower-case letter of each upper-case letter.
ToLower ==
    ("A" :> "a") @@
    ("B" :> "b") @@
    ("C" :> "c") @@
    ("D" :> "d") @@
    ("E" :> "e") @@
    ("F" :> "f") @@
    ("G" :> "g") @@
    ("H" :> "h") @@
    ("I" :> "i") @@
    ("J" :> "j") @@
    ("K" :> "k") @@
    ("L" :> "l") @@
    ("M" :> "m") @@
    ("N" :> "n") @@
    ("O" :> "o") @@
    ("P" :> "p") @@
    ("Q" :> "q") @@
    ("R" :> "r") @@
    ("S" :> "s") @@
    ("T" :> "t") @@
    ("U" :> "u") @@
    ("V" :> "v") @@
    ("W" :> "w") @@
    ("X" :> "x") @@
    ("Y" :> "y") @@
    ("Z" :> "z")

\* str.lower()
IdentityLower(s) == s

Lower(s) ==
    [k \in DOMAIN s |-> IF s[k] \in DOMAIN ToLower THEN ToLower[s[k]] ELSE s[k]]

\* The characters str.strip() removes.
Whitespace == {" ", "\t", "\n", "\r"}

\* str.strip()
RECURSIVE Strip(_)
Strip(s) ==
    IF s = <<>> THEN s
    ELSE IF Head(s) \in Whitespace THEN Strip(Tail(s))
    ELSE IF s[Len(s)] \in Whitespace THEN Strip(SubSeq(s, 1, Len(s) - 1))
    ELSE s

severity_map ==
    (<<"c","r","i","t","i","c","a","l">> :> critical) @@
    (<<"c","r","i","t">> :> critical) @@
    (<<"h","i","g","h">> :> high) @@
    (<<"m","e","d","i","u","m">> :> medium) @@
    (<<"m","e","d">> :> medium) @@
    (<<"m","o","d","e","r","a","t","e">> :> medium) @@
    (<<"l","o","w">> :> low) @@
    (<<"i","n","f","o">> :> informational) @@
    (<<"i","n","f","o","r","m","a","t","i","o","n","a","l">> :> informational) @@
    (<<"i","n","f","o","r","m","a","t","i","o","n">> :> informational) @@
    (<<"n","o","t","i","c","e">> :> informational)

status_map ==
    (<<"p","a","s","s">> :> pass) @@
    (<<"p","a","s","s","e","d">> :> pass) @@
    (<<"s","u","c","c","e","s","s">> :> pass) @@
    (<<"o","k">> :> pass) @@
    (<<"f","a","i","l">> :> fail) @@
    (<<"f","a","i","l","e","d">> :> fail) @@
    (<<"f","a","i","l","u","r","e">> :> fail) @@
    (<<"e","r","r","o","r">> :> fail) @@
    (<<"n","o","t","_","a","p","p","l","i","c","a","b","l","e">> :> not_applicable) @@
    (<<"n","/","a">> :> not_applicable) @@
    (<<"n","a">> :> not_applicable) @@
    (<<"s","k","i","p">> :> not_applicable) @@
    (<<"s","k","i","p","p","e","d">> :> not_applicable) @@
    (<<"i","n","f","o">> :> informational) @@
    (<<"i","n","f","o","r","m","a","t","i","o","n","a","l">> :> informational) @@
    (<<"i","n","f","o","r","m","a","t","i","o","n">> :> informational)

\* dict.get(key)
DictGet(map, key) == IF key \in DOMAIN map THEN map[key] ELSE None

_normalize_severity(severity) ==
    IF ~Bool(severity) THEN None
    ELSE DictGet(severity_map, Strip(Lower(Str(severity))))

_normalize_status(status) ==
    IF ~Bool(status) THEN None
    ELSE DictGet(status_map, Strip(Lower(Str(status))))

\* raw_finding.get(key): None when the key is missing
DictGetKey(raw, key) == IF HasKey(raw, key) THEN Item(raw, key) ELSE JNull

-----------------------------------------------------------------------------
(* cs_kit/normalizer/parser.py: the timestamp of _parse_single_finding *)

\* A timestamp string is written as its date-and-time part, one token,
\* followed by what follows it: nothing, Z or a numeric offset.
IsoLocalTimes == {"2024-01-01T00:00:00", "2024-06-30T12:00:00"}
IsoOffsets == {"+00:00", "+02:00"}

\* str.replace that replaces nothing
ReplaceNothing(str, old, new) == str

\* str.replace(old, new)
Replace(str, old, new) ==
    [k \in DOMAIN str |-> IF str[k] = old THEN new ELSE str[k]]

\* datetime.fromisoformat: a date and time, with a numeric offset or none.
fromisoformat(str) ==
    IF /\ Len(str) \in {1, 2}
       /\ str[1] \in IsoLocalTimes
       /\ Len(str) = 2 => str[2] \in IsoOffsets
    THEN Ok([local |-> str[1],
             tzinfo |-> IF Len(str) = 2 THEN str[2] ELSE "naive"])
    ELSE Raise("ValueError")

\* datetime.now(timezone.utc)
Now == [local |-> "now", tzinfo |-> "+00:00"]

\* time_str = raw_finding.get("time") ... time = ...
ParseTime(raw) ==
    LET time_str == DictGetKey(raw, "time") IN
    IF Bool(time_str) /\ time_str.t = "str"
    THEN LET parsed_time == fromisoformat(Replace(time_str.v, "Z", "+00:00")) IN
         IF parsed_time.raised THEN Now ELSE parsed_time.value
    ELSE Now

-----------------------------------------------------------------------------
(* The raw records handed to the extraction functions *)

\* The dict d can take a value at path: every key before the last is missing
\* or holds a dict, and the last key is missing.
RECURSIVE CanSet(_, _)
CanSet(d, path) ==
    /\ d.t = "dict"
    /\ IF Len(path) = 1 THEN ~HasKey(d, path[1])
       ELSE HasKey(d, path[1]) => CanSet(Item(d, path[1]), Tail(path))

\* d with value at path, the dicts on the way created as needed.
RECURSIVE SetPath(_, _, _)
SetPath(d, path, value) ==
    IF Len(path) = 1 THEN JDict(Append(d.v, <<path[1], value>>))
    ELSE IF HasKey(d, path[1])
    THEN JDict([k \in DOMAIN d.v |->
                  IF d.v[k][1] = path[1]
                  THEN <<path[1], SetPath(d.v[k][2], Tail(path), value)>>
                  ELSE d.v[k]])
    ELSE JDict(Append(d.v, <<path[1], SetPath(JDict(<<>>), Tail(path), value)>>))

\* The values a candidate path holds: null, the empty string, zero, a string
\* that spells the path, and a number.
LeafValues(path) == {JNull, JStr(<<>>), JNum(0), JStr(path), JNum(7)}

\* The values of a key that the code expects to hold a dict.
NotADict == {JStr(<<"s">>), JNum(5)}

\* The records that give a value to at most n of paths[k..], added to d.
\* values[k] is the set of values tried at paths[k].
RECURSIVE RecordsFrom(_, _, _, _, _)
RecordsFrom(paths, values, k, n, d) ==
    IF k > Len(paths) \/ n = 0 THEN {d}
    ELSE RecordsFrom(paths, values, k + 1, n, d) \cup
         (IF CanSet(d, paths[k])
          THEN UNION {RecordsFrom(paths, values, k + 1, n - 1,
                                  SetPath(d, paths[k], v)) :
                      v \in values[k]}
          ELSE {})

\* resources[0] as a dict with at most n of keys.
FirstResources(keys, n) ==
    RecordsFrom([k \in DOMAIN keys |-> <<keys[k]>>],
                [k \in DOMAIN keys |->
                   LeafValues(<<"resources", "0", keys[k]>>)],
                1, n, JDict(<<>>))

\* The values of the key resources: a list whose first element is a dict,
\* and the shapes that are no list of dicts.
ResourcesValues(keys, n) ==
    {JList(<<first>>) : first \in FirstResources(keys, n)} \cup
    {JNull, JList(<<>>), JNum(5), JBool(TRUE), JStr(<<"a", "b">>),
     JDict(<<>>), JDict(<<<<"uid", JStr(<<"u">>)>>>>),
     JList(<<JNum(5)>>), JList(<<JNull>>),
     JList(<<JStr(<<"uid", "-", "1">>)>>),
     JList(<<JList(<<JStr(<<"uid">>)>>)>>),
     JList(<<JDict(<<>>), JNum(5)>>)}

\* The records that exercise one extractor: keys are the keys it reads in
\* resources[0], prefixes the keys it expects to hold a dict, locations its
\* candidate paths; a record gives a value to at most n of them.
FieldRecords(keys, prefixes, locations, n) ==
    LET paths == (IF keys = <<>> THEN <<>> ELSE <<<<"resources">>>>)
                   \o prefixes \o locations
        Values(path) ==
            IF path = <<"resources">> THEN ResourcesValues(keys, n)
            ELSE IF \E k \in DOMAIN prefixes : prefixes[k] = path
                 THEN NotADict
                 ELSE IF path = <<"remediation">>
                      THEN LeafValues(path) \cup
                           {JDict(<<<<"url", JStr(<<"u">>)>>>>)}
                      ELSE LeafValues(path) IN
    RecordsFrom(paths, [k \in DOMAIN paths |-> Values(paths[k])], 1, n,
                JDict(<<>>))

\* The upper-case letter of a lower-case letter.
Upper(c) ==
    IF \E u \in DOMAIN ToLower : ToLower[u] = c
    THEN CHOOSE u \in DOMAIN ToLower : ToLower[u] = c
    ELSE c

\* A word in lower case, in upper case and capitalized.
Cases(word) ==
    {word, [k \in DOMAIN word |-> Upper(word[k])],
     [k \in DOMAIN word |-> IF k = 1 THEN Upper(word[k]) ELSE word[k]]}

\* The strings of at most MaxPad blanks and tabs.
Pads == SeqsUpTo({" ", "\t"}, MaxPad)

\* The raw severity and status values: every synonym of either table in
\* three letter cases with whitespace around it, strings that are no synonym,
\* and values that are no string.
RawLevels ==
    {JStr(l \o c \o r) :
        l \in Pads, r \in Pads,
        c \in UNION {Cases(w) : w \in DOMAIN severity_map \cup DOMAIN status_map}}
    \cup {JStr(<<>>), JStr(<<" ">>), JStr(<<"x">>), JStr(<<"n","-","a">>),
          JStr(<<"h","i"," ","g","h">>), JStr(<<"h","i","g">>),
          JStr(<<"h","i","g","h","h">>), JStr(<<"p","a","s","s","e","s">>),
          JNull, JNum(0), JNum(3), JBool(TRUE), JList(<<JStr(high)>>)}

LevelRecords ==
    {JDict(<< <<"severity", v>>, <<"status", v>> >>) : v \in RawLevels}

\* The tokens of a raw time string: a date and time, an offset, Z, and text
\* that is none of them.
TimeTokens == IsoLocalTimes \cup IsoOffsets \cup {"Z", "x"}

\* The records with a time field: strings of tokens, and values that are no
\* string.
TimeRecords ==
    {JDict(<< <<"time", v>> >>) :
        v \in {JStr(str) : str \in SeqsUpTo(TimeTokens, MaxTimeTokens)}
              \cup {JNull, JNum(0), JNum(1704067200), JBool(TRUE),
                    JList(<<JStr(<<"2024-01-01T00:00:00">>)>>),
                    JDict(<< <<"sec", JNum(1)>> >>)}}

\* The raw records the extractors are applied to, each with at most n of the
\* keys one extractor reads.
RawFindings(n) ==
    FieldRecords(<<"uid", "name">>, << <<"resource">> >>, ResourceIdLocations, n)
    \cup FieldRecords(<<"account_uid">>,
                      << <<"cloud">>, <<"cloud", "account">> >>,
                      AccountIdLocations, n)
    \cup FieldRecords(<<"region">>, << <<"cloud">>, <<"resource">> >>,
                      RegionLocations, n)
    \cup FieldRecords(<<>>, << <<"finding">> >>, CheckIdLocations, n)
    \cup FieldRecords(<<>>, << <<"finding">> >>, TitleLocations, n)
    \cup FieldRecords(<<>>, << <<"finding">> >>, DescriptionLocations, n)
    \cup FieldRecords(<<>>, << <<"finding">>, <<"finding", "remediation">> >>,
                      RemediationLocations, n)
    \cup LevelRecords
    \cup TimeRecords

IdleMapping ==
    /\ mapping_files = <<>>
    /\ findings = <<>>
    /\ map_ids = <<>>
    /\ m_pc = "idle"
    /\ m_result = <<>>

IdleExtract ==
    /\ raw_finding = JDict(<<>>)
    /\ x_pc = "idle"
    /\ x_result = <<>>

IdleParse ==
    /\ file = <<>>
    /\ p_pc = "idle"
    /\ p_data = <<>>
    /\ p_i = 0
    /\ parsed = <<>>
    /\ p_result = <<>>

\* No function of summarize.py is called.
IdleSummary ==
    /\ s_findings = <<>>
    /\ s_prefix = <<>>
    /\ s_pc = "idle"
    /\ s_result = <<>>

\* _extract_resource_type is not called.
IdleResource ==
    /\ r_resource_id = <<>>
    /\ r_pc = "idle"
    /\ r_result = <<>>

\* The web application is not running.
IdleWeb ==
    /\ scan_results = <<>>
    /\ tasks = <<>>
    /\ loop_running = FALSE
    /\ response = 0

InitExtract ==
    /\ raw_finding \in RawFindings(MaxKeys)
    /\ x_pc = "input"
    /\ x_result = <<>>
    /\ IdleMapping
    /\ IdleParse
    /\ IdleSummary
    /\ IdleResource
    /\ IdleWeb

\* One function applied to the record.
Apply(name, result) ==
    /\ x_pc = "input"
    /\ x_pc' = name
    /\ x_result' = result
    /\ UNCHANGED <<raw_finding, mvars, pvars, svars, rvars, wvars>>

ExtractResourceId == Apply("_extract_resource_id", _extract_resource_id(raw_finding))
ExtractAccountId == Apply("_extract_account_id", _extract_account_id(raw_finding))
ExtractRegion == Apply("_extract_region", _extract_region(raw_finding))
ExtractCheckId == Apply("_extract_check_id", _extract_check_id(raw_finding))
ExtractTitle == Apply("_extract_title", _extract_title(raw_finding))
ExtractDescription == Apply("_extract_description", _extract_description(raw_finding))
ExtractRemediation == Apply("_extract_remediation", _extract_remediation(raw_finding))
NormalizeSeverity ==
    Apply("_normalize_severity",
          Ok(_normalize_severity(DictGetKey(raw_finding, "severity"))))
NormalizeStatus ==
    Apply("_normalize_status",
          Ok(_normalize_status(DictGetKey(raw_finding, "status"))))

\* The timestamp of _parse_single_finding
ParseTimestamp == Apply("time", Ok(ParseTime(raw_finding)))

NextExtract ==
    \/ ExtractResourceId
    \/ ExtractAccountId
    \/ ExtractRegion
    \/ ExtractCheckId
    \/ ExtractTitle
    \/ ExtractDescription
    \/ ExtractRemediation
    \/ NormalizeSeverity
    \/ NormalizeStatus
    \/ ParseTimestamp

SpecExtract == InitExtract /\ [][NextExtract]_vars

-----------------------------------------------------------------------------
(* What the claims about the extraction functions speak of *)

\* The value a candidate path resolves to, null when it resolves to nothing;
\* the path element "0" is the first element of a list.
RECURSIVE Resolve(_, _)
Resolve(x, path) ==
    IF path = <<>> THEN x
    ELSE IF HasKey(x, Head(path)) THEN Resolve(Item(x, Head(path)), Tail(path))
    ELSE IF x.t = "list" /\ Head(path) = "0" /\ x.v /= <<>>
         THEN Resolve(x.v[1], Tail(path))
         ELSE JNull

\* A non-empty value: one Python counts as true (not null, not the empty
\* string, not zero, not an empty container).
NonEmptyValue(x) == Bool(x)

\* The string value of the first candidate that resolves to a non-empty
\* value, None when no candidate does.
FirstNonEmpty(raw, candidates) ==
    LET hits == {k \in DOMAIN candidates :
                   NonEmptyValue(Resolve(raw, candidates[k]))} IN
    IF hits = {} THEN None
    ELSE Str(Resolve(raw, candidates[CHOOSE k \in hits : \A j \in hits : k <= j]))

C4_ResourceIdOrder ==
    << <<"resources", "0", "uid">>, <<"resources", "0", "name">>,
       <<"resource", "uid">>, <<"resource", "id">>, <<"resource_uid">>,
       <<"resource_id">>, <<"arn">>, <<"resource_arn">> >>

\* C4: whenever _extract_resource_id returns, it returns the value of the
\* first candidate, in the order resources[0].uid, resources[0].name,
\* resource.uid, resource.id, resource_uid, resource_id, arn, resource_arn,
\* that is non-empty, a null or empty candidate being skipped; and None when
\* no candidate is non-empty.
C4_ResourceIdFirstNonEmpty ==
    (x_pc = "_extract_resource_id" /\ ~x_result.raised) =>
      x_result.value = FirstNonEmpty(raw_finding, C4_ResourceIdOrder)

Extractors ==
    {"_extract_resource_id", "_extract_account_id", "_extract_region",
     "_extract_check_id", "_extract_title", "_extract_description",
     "_extract_remediation"}

\* C5: no field extractor raises, whatever the shape of the record.
C5_ExtractionNeverRaises ==
    x_pc \in Extractors => ~x_result.raised

C6_CheckIdOrder ==
    << <<"finding", "uid">>, <<"finding", "id">>, <<"check_id">>,
       <<"rule_id">>, <<"uid">>, <<"id">> >>

C6_TitleOrder ==
    << <<"finding", "title">>, <<"title">>, <<"summary">>, <<"name">> >>

C6_DescriptionOrder ==
    << <<"finding", "desc">>, <<"finding", "description">>,
       <<"description">>, <<"desc">>, <<"message">> >>

\* C6: check_id, title and description are each the string value of the
\* first non-empty candidate of their order, the higher-priority candidate
\* winning when several are present, and None when no candidate is non-empty.
C6_FirstCandidateWins ==
    /\ x_pc = "_extract_check_id" =>
         x_result = Ok(FirstNonEmpty(raw_finding, C6_CheckIdOrder))
    /\ x_pc = "_extract_title" =>
         x_result = Ok(FirstNonEmpty(raw_finding, C6_TitleOrder))
    /\ x_pc = "_extract_description" =>
         x_result = Ok(FirstNonEmpty(raw_finding, C6_DescriptionOrder))

\* C6's case: finding.id and check_id both hold a string, and check_id comes
\* back as the one of finding.id.
C6_Witness ==
    /\ x_pc = "_extract_check_id"
    /\ Resolve(raw_finding, <<"finding", "id">>) = JStr(<<"finding", "id">>)
    /\ Resolve(raw_finding, <<"check_id">>) = JStr(<<"check_id">>)
    /\ x_result = Ok(<<"finding", "id">>)

\* The synonyms of each canonical severity and status.
SeveritySynonyms ==
    (critical :> {<<"c","r","i","t","i","c","a","l">>, <<"c","r","i","t">>}) @@
    (high :> {<<"h","i","g","h">>}) @@
    (medium :> {<<"m","e","d","i","u","m">>, <<"m","e","d">>, <<"m","o","d","e","r","a","t","e">>}) @@
    (low :> {<<"l","o","w">>}) @@
    (informational :> {<<"i","n","f","o">>, <<"i","n","f","o","r","m","a","t","i","o","n","a","l">>, <<"i","n","f","o","r","m","a","t","i","o","n">>, <<"n","o","t","i","c","e">>})

StatusSynonyms ==
    (pass :> {<<"p","a","s","s">>, <<"p","a","s","s","e","d">>, <<"s","u","c","c","e","s","s">>, <<"o","k">>}) @@
    (fail :> {<<"f","a","i","l">>, <<"f","a","i","l","e","d">>, <<"f","a","i","l","u","r","e">>, <<"e","r","r","o","r">>}) @@
    (not_applicable :> {<<"n","o","t","_","a","p","p","l","i","c","a","b","l","e">>, <<"n","/","a">>, <<"n","a">>, <<"s","k","i","p">>, <<"s","k","i","p","p","e","d">>}) @@
    (informational :> {<<"i","n","f","o">>, <<"i","n","f","o","r","m","a","t","i","o","n","a","l">>, <<"i","n","f","o","r","m","a","t","i","o","n">>})

\* s is word in some letter case, with whitespace around it.
IsVariant(s, word) ==
    \E i \in 0..Len(s) :
      /\ i + Len(word) <= Len(s)
      /\ \A k \in 1..i : s[k] \in Whitespace
      /\ \A k \in 1..Len(word) : s[i + k] \in {word[k], Upper(word[k])}
      /\ \A k \in (i + Len(word) + 1)..Len(s) : s[k] \in Whitespace

\* The canonical value whose synonym the raw value is, None when the raw
\* value is no string or no synonym.
Canonical(synonyms, x) ==
    LET hits == {c \in DOMAIN synonyms :
                   x.t = "str" /\ \E w \in synonyms[c] : IsVariant(x.v, w)} IN
    IF hits = {} THEN None ELSE CHOOSE c \in hits : TRUE

\* C7: a raw severity (status) that is a synonym in any letter case, with
\* whitespace around it, normalizes to the synonym's canonical value; every
\* other value, the empty string and an absent one included, normalizes to
\* None; so the result is None or a member of the enum.
C7_Normalization ==
    /\ x_pc = "_normalize_severity" =>
         /\ x_result.value \in SeverityLiteral \cup {None}
         /\ x_result.value =
              Canonical(SeveritySynonyms, DictGetKey(raw_finding, "severity"))
    /\ x_pc = "_normalize_status" =>
         /\ x_result.value \in StatusLiteral \cup {None}
         /\ x_result.value =
              Canonical(StatusSynonyms, DictGetKey(raw_finding, "status"))

\* C7's case: the status " N/A" with whitespace around it normalizes to not_applicable.
C7_Witness ==
    /\ x_pc = "_normalize_status"
    /\ DictGetKey(raw_finding, "status") = JStr(<<" ", "N", "/", "A">>)
    /\ x_result.value = not_applicable

-----------------------------------------------------------------------------
(* cs_kit/normalizer/parser.py: _parse_single_finding and parse_ocsf *)

\* The characters of a decimal number.
IsDigits(str) ==
    /\ str /= <<>>
    /\ \A k \in DOMAIN str :
         str[k] \in {"0", "1", "2", "3", "4", "5", "6", "7", "8", "9"}

\* OCSFFinding(...): the model validates class_uid as int | None and
\* class_name as str | None; every other argument has its field's type.
OCSFFinding(fields) ==
    IF /\ fields.class_uid.t \in {"NoneType", "int", "bool"}
            \/ (fields.class_uid.t = "str" /\ IsDigits(fields.class_uid.v))
       /\ fields.class_name.t \in {"NoneType", "str"}
    THEN Ok([fields EXCEPT
               !.class_name = IF fields.class_name.t = "str"
                              THEN fields.class_name.v ELSE None])
    ELSE Raise("ValidationError")

\* _parse_single_finding with kept_raw handed to OCSFFinding as raw.
ParseFields(raw, provider, product, kept_raw) ==
    LET resource_id == _extract_resource_id(raw)
        account_id == _extract_account_id(raw)
        region == _extract_region(raw) IN
    IF resource_id.raised THEN resource_id
    ELSE IF account_id.raised THEN account_id
    ELSE IF region.raised THEN region
    ELSE OCSFFinding(
           [time |-> ParseTime(raw),
            provider |-> provider,
            product |-> product,
            class_uid |-> DictGetKey(raw, "class_uid"),
            class_name |-> DictGetKey(raw, "class_name"),
            severity |-> _normalize_severity(DictGetKey(raw, "severity")),
            status |-> _normalize_status(DictGetKey(raw, "status")),
            resource_id |-> resource_id.value,
            account_id |-> account_id.value,
            region |-> region.value,
            check_id |-> _extract_check_id(raw).value,
            title |-> _extract_title(raw).value,
            description |-> _extract_description(raw).value,
            remediation |-> _extract_remediation(raw).value,
            raw |-> kept_raw])

ParseSingleFindingDefaultRaw(raw, provider, product) ==
    ParseFields(raw, provider, product, JDict(<<>>))

_parse_single_finding(raw, provider, product) ==
    ParseFields(raw, provider, product, raw)

\* The arguments of parse_ocsf.
Path == "scan.json"
Provider == "aws"
Product == <<"p">>

\* if not path.exists(): ... json.load(f) ... isinstance(data, dict) ...
OpenScalarAsRecord ==
    /\ p_pc = "open"
    /\ IF file.kind = "absent"
       THEN /\ p_pc' = "raised"
            /\ p_result' = Error("FileNotFoundError",
                                 <<"OCSF file not found: ", Path>>)
            /\ UNCHANGED p_data
       ELSE IF file.kind = "invalid"
       THEN /\ p_pc' = "raised"
            /\ p_result' = Error("JSONDecodeError",
                                 <<"Invalid JSON in ", Path, ": ", "msg">>)
            /\ UNCHANGED p_data
       ELSE /\ p_pc' = "loop"
            /\ p_data' = IF file.data.t = "list" THEN file.data.v
                         ELSE <<file.data>>
            /\ UNCHANGED p_result
    /\ UNCHANGED <<file, p_i, parsed, mvars, xvars, svars, rvars, wvars>>

\* Open without "if isinstance(data, dict): data = [data]": the loop then
\* iterates over the keys of the object.
OpenObjectAsKeys ==
    /\ p_pc = "open"
    /\ IF file.kind = "absent"
       THEN /\ p_pc' = "raised"
            /\ p_result' = Error("FileNotFoundError",
                                 <<"OCSF file not found: ", Path>>)
            /\ UNCHANGED p_data
       ELSE IF file.kind = "invalid"
       THEN /\ p_pc' = "raised"
            /\ p_result' = Error("JSONDecodeError",
                                 <<"Invalid JSON in ", Path, ": ", "msg">>)
            /\ UNCHANGED p_data
       ELSE IF file.data.t = "dict"
       THEN /\ p_pc' = "loop"
            /\ p_data' = [k \in DOMAIN file.data.v |-> JStr(<<file.data.v[k][1]>>)]
            /\ UNCHANGED p_result
       ELSE IF file.data.t /= "list"
       THEN /\ p_pc' = "raised"
            /\ p_result' = Error("ValueError",
                                 <<"Expected JSON object or array in ", Path,
                                   ", got ", file.data.t>>)
            /\ UNCHANGED p_data
       ELSE /\ p_pc' = "loop"
            /\ p_data' = file.data.v
            /\ UNCHANGED p_result
    /\ UNCHANGED <<file, p_i, parsed, mvars, xvars, svars, rvars, wvars>>

Open ==
    /\ p_pc = "open"
    /\ IF file.kind = "absent"
       THEN /\ p_pc' = "raised"
            /\ p_result' = Error("FileNotFoundError",
                                 <<"OCSF file not found: ", Path>>)
            /\ UNCHANGED p_data
       ELSE IF file.kind = "invalid"
       THEN /\ p_pc' = "raised"
            /\ p_result' = Error("JSONDecodeError",
                                 <<"Invalid JSON in ", Path, ": ", "msg">>)
            /\ UNCHANGED p_data
       ELSE IF file.data.t = "dict"
       THEN /\ p_pc' = "loop"
            /\ p_data' = <<file.data>>
            /\ UNCHANGED p_result
       ELSE IF file.data.t /= "list"
       THEN /\ p_pc' = "raised"
            /\ p_result' = Error("ValueError",
                                 <<"Expected JSON object or array in ", Path,
                                   ", got ", file.data.t>>)
            /\ UNCHANGED p_data
       ELSE /\ p_pc' = "loop"
            /\ p_data' = file.data.v
            /\ UNCHANGED p_result
    /\ UNCHANGED <<file, p_i, parsed, mvars, xvars, svars, rvars, wvars>>

\* One iteration of "for i, raw_finding in enumerate(data)"; p_i counts from
\* 0 and p_data[p_i + 1] is data[i].
ParseRecordSkipping ==
    /\ p_pc = "loop"
    /\ p_i < Len(p_data)
    /\ LET record == p_data[p_i + 1]
           finding == _parse_single_finding(record, Provider, Product) IN
       IF record.t = "dict" /\ ~finding.raised
       THEN /\ parsed' = Append(parsed, finding.value)
            /\ p_i' = p_i + 1
            /\ UNCHANGED <<p_pc, p_result>>
       ELSE /\ p_i' = p_i + 1
            /\ UNCHANGED <<parsed, p_pc, p_result>>
    /\ UNCHANGED <<file, p_data, mvars, xvars, svars, rvars, wvars>>

ParseRecord ==
    /\ p_pc = "loop"
    /\ p_i < Len(p_data)
    /\ LET record == p_data[p_i + 1] IN
       IF record.t /= "dict"
       THEN /\ p_pc' = "raised"
            /\ p_result' = Error("ValueError",
                                 <<"Expected JSON object at index ">>
                                   \o Decimal(p_i)
                                   \o <<" in ", Path, ", got ", record.t>>)
            /\ UNCHANGED <<parsed, p_i>>
       ELSE LET finding == _parse_single_finding(record, Provider, Product) IN
            IF finding.raised
            THEN /\ p_pc' = "raised"
                 /\ p_result' = Error("ValueError",
                                      <<"Error parsing finding at index ">>
                                        \o Decimal(p_i)
                                        \o <<" in ", Path, ": ", finding.error>>)
                 /\ UNCHANGED <<parsed, p_i>>
            ELSE /\ parsed' = Append(parsed, finding.value)
                 /\ p_i' = p_i + 1
                 /\ UNCHANGED <<p_pc, p_result>>
    /\ UNCHANGED <<file, p_data, mvars, xvars, svars, rvars, wvars>>

\* return findings
Return ==
    /\ p_pc = "loop"
    /\ p_i = Len(p_data)
    /\ p_pc' = "returned"
    /\ p_result' = Ok(parsed)
    /\ UNCHANGED <<file, p_data, p_i, parsed, mvars, xvars, svars, rvars, wvars>>

\* The elements of the JSON array in the file: records the Normalizer
\* accepts, records whose processing raises, and values that are no object.
ArrayElements ==
    {JDict(<<>>),
     JDict(<< <<"time", JStr(<<"2024-01-01T00:00:00", "Z">>)>>,
              <<"class_uid", JNum(2001)>>,
              <<"severity", JStr(<<"H","I","G","H">>)>>,
              <<"status", JStr(fail)>>,
              <<"resources", JList(<<JDict(<< <<"uid", JStr(<<"r","1">>)>>,
                                             <<"account_uid", JStr(<<"1">>)>> >>)>>)>>,
              <<"finding", JDict(<< <<"uid", JStr(<<"a">>)>> >>)>> >>),
     JDict(<< <<"time", JStr(<<"2024-06-30T12:00:00">>)>>,
              <<"resource_id", JStr(<<"r","2">>)>>,
              <<"severity", JStr(medium)>>,
              <<"status", JStr(pass)>> >>),
     JDict(<< <<"time", JStr(<<"y","e","s","t","e","r","d","a","y">>)>>,
              <<"check_id", JStr(<<"b">>)>> >>),
     JDict(<< <<"time", JNum(7)>>, <<"class_name", JStr(<<"c">>)>> >>),
     JDict(<< <<"resources", JNum(5)>> >>),
     JDict(<< <<"resources", JList(<<JNull>>)>>, <<"check_id", JStr(<<"a">>)>> >>),
     JDict(<< <<"class_uid", JStr(<<"x">>)>> >>),
     JNum(5), JStr(<<"s">>), JNull, JList(<<>>)}

\* What the file system holds at path: nothing, a text that is no JSON, or a
\* JSON value: a scalar, one object, or an array.
Files ==
    {[kind |-> "absent"], [kind |-> "invalid"]}
    \cup {[kind |-> "json", data |-> v] :
            v \in {JStr(<<"s">>), JNum(5), JNull, JBool(TRUE)}}
    \cup {[kind |-> "json", data |-> v] :
            v \in {e \in ArrayElements : e.t = "dict"}}
    \cup {[kind |-> "json", data |-> JList(l)] :
            l \in SeqsUpTo(ArrayElements, MaxRecords)}

InitParse ==
    /\ file \in Files
    /\ p_pc = "open"
    /\ p_data = <<>>
    /\ p_i = 0
    /\ parsed = <<>>
    /\ p_result = <<>>
    /\ IdleMapping
    /\ IdleExtract
    /\ IdleSummary
    /\ IdleResource
    /\ IdleWeb

NextParse == Open \/ ParseRecord \/ Return

SpecParse == InitParse /\ [][NextParse]_vars

-----------------------------------------------------------------------------
(* What the claims about parse_ocsf speak of *)

\* The records of the file: the elements of its array, or its one object.
FileRecords == IF file.data.t = "list" THEN file.data.v ELSE <<file.data>>

\* C8: the raw field of every finding is the record it was built from,
\* unmodified: of the findings collected so far, and of the findings returned.
C8_RawVerbatim ==
    /\ \A k \in DOMAIN parsed : parsed[k].raw = p_data[k]
    /\ p_pc = "returned" =>
         \A k \in DOMAIN p_result.value : p_result.value[k].raw = FileRecords[k]

\* C8's case: a returned finding whose resource id and severity were
\* extracted from a record of several keys.
C8_Witness ==
    /\ p_pc = "returned"
    /\ \E k \in DOMAIN p_result.value :
         /\ p_result.value[k].resource_id = <<"r", "1">>
         /\ p_result.value[k].severity = high
         /\ Len(p_result.value[k].raw.v) = 6
         /\ p_result.value[k].raw = FileRecords[k]

BadRecord(k) ==
    \/ p_data[k].t /= "dict"
    \/ _parse_single_finding(p_data[k], Provider, Product).raised

BadRecords == {k \in DOMAIN p_data : BadRecord(k)}

FirstBad == CHOOSE k \in BadRecords : \A j \in BadRecords : k <= j

\* C10: normalization is fail-fast. The loop never gets past the first bad
\* record; when it raises, the error names that record's index and the path,
\* exactly the records before it were processed and no list is returned; and
\* a list is returned only when no record is bad.
C10_FailFast ==
    /\ BadRecords /= {} => (p_i < FirstBad /\ Len(parsed) < FirstBad)
    /\ (p_pc = "raised" /\ p_data /= <<>>) =>
         /\ BadRecords /= {}
         /\ p_i = FirstBad - 1
         /\ Len(parsed) = FirstBad - 1
         /\ p_result.error = "ValueError"
         /\ p_result.message[1] \in {"Expected JSON object at index ",
                                     "Error parsing finding at index "}
         /\ SubSeq(p_result.message, 2, 1 + Len(Decimal(FirstBad - 1)))
              = Decimal(FirstBad - 1)
         /\ p_result.message[2 + Len(Decimal(FirstBad - 1))] = " in "
         /\ p_result.message[3 + Len(Decimal(FirstBad - 1))] = Path
         /\ "value" \notin DOMAIN p_result
    /\ p_pc = "returned" =>
         /\ BadRecords = {}
         /\ Len(p_result.value) = Len(p_data)

\* C10's case: three records, the second one's processing raises, the call
\* has raised naming index 1 with one finding collected and the third record
\* never processed.
C10_Witness ==
    /\ p_pc = "raised"
    /\ Len(p_data) = 3
    /\ p_data[1].t = "dict" /\ p_data[2].t = "dict" /\ p_data[3].t = "dict"
    /\ ~BadRecord(1) /\ BadRecord(2) /\ ~BadRecord(3)
    /\ p_result.message[1] = "Error parsing finding at index "
    /\ p_result.message[2] = "1"
    /\ Len(parsed) = 1

\* The finding each record of a list is built into.
Normalized(records) ==
    [k \in DOMAIN records |->
       _parse_single_finding(records[k], Provider, Product)]

\* C11: a file holding one JSON object is processed as the one-element list
\* of that object, and a returned list has one finding per record of the
\* file, the k-th finding built from the k-th record; an object file raises
\* only when its one record is bad, naming index 0.
C11_OneFindingPerRecord ==
    /\ (p_pc \in {"loop", "returned"} /\ file.data.t = "dict") =>
         p_data = <<file.data>>
    /\ p_pc = "returned" =>
         /\ Len(p_result.value) = Len(FileRecords)
         /\ \A k \in DOMAIN FileRecords :
              p_result.value[k] = Normalized(FileRecords)[k].value
    /\ (p_pc = "raised" /\ file.kind = "json" /\ file.data.t = "dict") =>
         /\ Normalized(<<file.data>>)[1].raised
         /\ p_result.message[2] = "0"

\* C11's case: the file holds one object with a resources array, and the call
\* returned the one finding built from it.
C11_Witness ==
    /\ p_pc = "returned"
    /\ file.data.t = "dict"
    /\ HasKey(file.data, "resources")
    /\ Len(p_result.value) = 1
    /\ p_result.value[1].resource_id = <<"r", "1">>

-----------------------------------------------------------------------------
(* What the claim about the timestamp speaks of *)

\* A string that parses as ISO-8601: a date and time, alone or followed by a
\* numeric offset or by Z.
IsIso8601(str) ==
    /\ Len(str) \in {1, 2}
    /\ str[1] \in IsoLocalTimes
    /\ Len(str) = 2 => str[2] \in IsoOffsets \cup {"Z"}

\* The instant such a string denotes, Z read as the UTC offset.
Instant(str) ==
    [local |-> str[1],
     tzinfo |-> IF Len(str) = 1 THEN "naive"
                ELSE IF str[2] = "Z" THEN "+00:00" ELSE str[2]]

\* C12: the time of a finding is the parsed instant when the record's time
\* field is a string that parses as ISO-8601, a trailing Z read as the UTC
\* offset, and the current UTC time in every other case; the timestamp never
\* raises.
C12_TimeParsedOrNow ==
    x_pc = "time" =>
      /\ ~x_result.raised
      /\ x_result.value =
           IF /\ HasKey(raw_finding, "time")
              /\ Item(raw_finding, "time").t = "str"
              /\ IsIso8601(Item(raw_finding, "time").v)
           THEN Instant(Item(raw_finding, "time").v)
           ELSE Now

\* C12's case: a time string with a trailing Z was parsed as a UTC instant.
C12_Witness ==
    /\ x_pc = "time"
    /\ raw_finding = JDict(<< <<"time", JStr(<<"2024-06-30T12:00:00", "Z">>)>> >>)
    /\ x_result.value = [local |-> "2024-06-30T12:00:00", tzinfo |-> "+00:00"]


-----------------------------------------------------------------------------
(* cs_kit/normalizer/summarize.py *)

unknown == <<"u","n","k","n","o","w","n">>

\* value or "unknown", without the substitution
KeepUnset(value) == value

\* value or "unknown"
OrUnknown(value) == IF Truthy(value) THEN value ELSE unknown

\* counter[key] += 1 on a Counter kept as the sequence of its <<key, count>>
\* pairs in insertion order
Increment(counter, key) ==
    IF \E k \in DOMAIN counter : counter[k][1] = key
    THEN [k \in DOMAIN counter |->
            IF counter[k][1] = key THEN <<key, counter[k][2] + 1>>
            ELSE counter[k]]
    ELSE Append(counter, <<key, 1>>)

\* for finding in findings: counter[key of finding] += 1
RECURSIVE CountAll(_, _)
CountAll(keys, counter) ==
    IF keys = <<>> THEN counter
    ELSE CountAll(Tail(keys), Increment(counter, Head(keys)))

severity_counts(fs) ==
    CountAll([k \in DOMAIN fs |-> OrUnknown(fs[k].severity)], <<>>)

status_counts(fs) ==
    CountAll([k \in DOMAIN fs |-> OrUnknown(fs[k].status)], <<>>)

provider_counts(fs) == CountAll([k \in DOMAIN fs |-> fs[k].provider], <<>>)

product_counts(fs) == CountAll([k \in DOMAIN fs |-> fs[k].product], <<>>)

\* counter.get(key, 0)
CounterGet(counter, key) ==
    IF \E k \in DOMAIN counter : counter[k][1] = key
    THEN counter[CHOOSE k \in DOMAIN counter : counter[k][1] = key][2]
    ELSE 0

\* str.startswith(prefix)
StartsWith(str, prefix) ==
    /\ Len(str) >= Len(prefix)
    /\ SubSeq(str, 1, Len(prefix)) = prefix

\* hasattr(finding, 'framework_refs') and finding.framework_refs
HasRefs(finding) ==
    /\ "framework_refs" \in DOMAIN finding
    /\ finding.framework_refs /= <<>>

\* The filter of framework_score with ref.startswith(framework_prefix)
InFrameworkNoColon(finding, framework_prefix) ==
    /\ HasRefs(finding)
    /\ \E k \in DOMAIN finding.framework_refs :
         StartsWith(finding.framework_refs[k], framework_prefix)

\* The filter of framework_score: some ref starts with framework_prefix + ":"
InFramework(finding, framework_prefix) ==
    /\ HasRefs(finding)
    /\ \E k \in DOMAIN finding.framework_refs :
         StartsWith(finding.framework_refs[k], framework_prefix \o <<":">>)

framework_score(fs, framework_prefix) ==
    LET Belongs(finding) == InFramework(finding, framework_prefix)
        framework_findings == SelectSeq(fs, Belongs)
        status_counter ==
            CountAll([k \in DOMAIN framework_findings |->
                        OrUnknown(framework_findings[k].status)], <<>>) IN
    [pass |-> CounterGet(status_counter, pass),
     fail |-> CounterGet(status_counter, fail),
     warn |-> CounterGet(status_counter, informational)
                + CounterGet(status_counter, not_applicable),
     unknown |-> CounterGet(status_counter, unknown),
     total |-> Len(framework_findings)]

\* ":" in ref
HasColon(ref) == \E k \in DOMAIN ref : ref[k] = ":"

\* ref.split(":", 1)[0]
SplitFirst(ref) ==
    IF HasColon(ref)
    THEN SubSeq(ref, 1, (CHOOSE k \in DOMAIN ref :
                           /\ ref[k] = ":"
                           /\ \A j \in 1..(k - 1) : ref[j] /= ":") - 1)
    ELSE ref

\* The set framework_refs of generate_finding_summary after its loop.
FrameworkIds(fs) ==
    UNION {IF HasRefs(fs[k])
           THEN {SplitFirst(ref) :
                   ref \in {fs[k].framework_refs[r] :
                              r \in {j \in DOMAIN fs[k].framework_refs :
                                       HasColon(fs[k].framework_refs[j])}}}
           ELSE {} : k \in DOMAIN fs}

\* frameworks_covered of generate_finding_summary
FrameworksCovered(fs) ==
    IF fs /= <<>> /\ "framework_refs" \in DOMAIN fs[1]
    THEN sorted(FrameworkIds(fs))
    ELSE <<>>

\* The minutes from 2024-01-01T00:00:00 to a date and time; the current time
\* is later than every time of the model.
Minutes ==
    ("2024-01-01T00:00:00" :> 0) @@ ("2024-06-30T12:00:00" :> 261360)
    @@ ("now" :> 1500000)

\* The minutes of a UTC offset.
OffsetMinutes == ("+00:00" :> 0) @@ ("+02:00" :> 120)

\* a < b on datetime: a naive and an aware datetime do not compare.
Before(a, b) ==
    IF (a.tzinfo = "naive") /= (b.tzinfo = "naive") THEN Raise("TypeError")
    ELSE IF a.tzinfo = "naive" THEN Ok(Minutes[a.local] < Minutes[b.local])
    ELSE Ok(Minutes[a.local] - OffsetMinutes[a.tzinfo]
              < Minutes[b.local] - OffsetMinutes[b.tzinfo])

\* min(timestamps): best is the minimum so far.
RECURSIVE Min(_, _)
Min(best, rest) ==
    IF rest = <<>> THEN Ok(best)
    ELSE LET lt == Before(Head(rest), best) IN
         IF lt.raised THEN lt
         ELSE Min(IF lt.value THEN Head(rest) ELSE best, Tail(rest))

\* max(timestamps): best is the maximum so far.
RECURSIVE Max(_, _)
Max(best, rest) ==
    IF rest = <<>> THEN Ok(best)
    ELSE LET gt == Before(best, Head(rest)) IN
         IF gt.raised THEN gt
         ELSE Max(IF gt.value THEN Head(rest) ELSE best, Tail(rest))

\* time_range_analysis: a datetime is never false, so timestamps holds the
\* time of every finding.
time_range_analysis(fs) ==
    IF fs = <<>> THEN Ok([start |-> None, end |-> None])
    ELSE LET timestamps == [k \in DOMAIN fs |-> fs[k].time]
             start == Min(Head(timestamps), Tail(timestamps))
             end == Max(Head(timestamps), Tail(timestamps)) IN
         IF start.raised THEN start
         ELSE IF end.raised THEN end
         ELSE Ok([start |-> start.value, end |-> end.value])

\* unique_resource_analysis without the tests "if finding.resource_id" and
\* "if finding.account_id"
UniqueResourceAnalysisUnfiltered(fs) ==
    [unique_resources |->
       Cardinality({fs[k].resource_id : k \in DOMAIN fs}),
     unique_accounts |->
       Cardinality({fs[k].account_id : k \in DOMAIN fs})]

\* unique_resource_analysis with lists in place of the sets
UniqueResourceAnalysisRepeating(fs) ==
    [unique_resources |->
       Cardinality({j \in DOMAIN fs : Truthy(fs[j].resource_id)}),
     unique_accounts |->
       Cardinality({j \in DOMAIN fs : Truthy(fs[j].account_id)})]

\* unique_resource_analysis: the sizes of the sets unique_resources and
\* unique_accounts. resource_types and resources_per_account are computed
\* from the same sets, raise nothing and are not part of the summary.
unique_resource_analysis(fs) ==
    [unique_resources |->
       Cardinality({fs[k].resource_id :
                      k \in {j \in DOMAIN fs : Truthy(fs[j].resource_id)}}),
     unique_accounts |->
       Cardinality({fs[k].account_id :
                      k \in {j \in DOMAIN fs : Truthy(fs[j].account_id)}})]

generate_finding_summary(fs) ==
    LET frameworks_covered == FrameworksCovered(fs)
        time_range == time_range_analysis(fs)
        resource_analysis == unique_resource_analysis(fs) IN
    IF time_range.raised THEN time_range
    ELSE Ok([total_findings |-> Len(fs),
             by_severity |-> severity_counts(fs),
             by_status |-> status_counts(fs),
             by_provider |-> provider_counts(fs),
             by_product |-> product_counts(fs),
             frameworks_covered |-> frameworks_covered,
             scan_time_range |-> time_range.value,
             unique_resources |-> resource_analysis.unique_resources,
             unique_accounts |-> resource_analysis.unique_accounts])

-----------------------------------------------------------------------------
(* The findings handed to summarize.py: what the Normalizer builds from raw *)
(* records, and what the Enricher makes of them.                           *)

prowler == <<"p","r","o","w","l","e","r">>

\* The raw records behind the findings.
IamRecord ==
    JDict(<< <<"resources",
               JList(<<JDict(<< <<"uid", JStr(<<"a","r","n",":","a","w","s",":","i","a","m",":",":","1","2","3",":","r","o","o","t">>)>> >>)>>)>>,
             <<"severity", JStr(<<"H","I","G","H">>)>> >>)

BucketRecord ==
    JDict(<< <<"resource_id", JStr(<<"a","r","n",":","a","w","s",":","s","3",":",":",":","b","u","c","k","e","t">>)>>,
             <<"severity", JStr(medium)>> >>)

EmptyRecord == JDict(<<>>)

NaiveTimeRecord ==
    JDict(<< <<"time", JStr(<<"2024-06-30T12:00:00">>)>>,
             <<"status", JStr(<<"F","A","I","L">>)>>,
             <<"severity", JStr(<<"c","r","i","t">>)>>,
             <<"account_id", JStr(<<"1">>)>> >>)

OffsetTimeRecord ==
    JDict(<< <<"time", JStr(<<"2024-01-01T00:00:00", "+02:00">>)>>,
             <<"status", JStr(<<"p","a","s","s","e","d">>)>>,
             <<"resource_id", JStr(<<"a","r","n",":","a","w","s",":","s","3",":",":",":","b","u","c","k","e","t">>)>>,
             <<"account_id", JStr(<<"1">>)>> >>)

ZuluTimeRecord ==
    JDict(<< <<"time", JStr(<<"2024-01-01T00:00:00", "Z">>)>>,
             <<"status", JStr(<<"i","n","f","o">>)>>,
             <<"severity", JStr(low)>>,
             <<"account_id", JStr(<<"2">>)>> >>)

\* resources[0] with an empty uid and an empty account_uid: the extractors
\* return the empty string for both.
BlankUidRecord ==
    JDict(<< <<"resources",
               JList(<<JDict(<< <<"uid", JStr(<<>>)>>,
                                <<"account_uid", JStr(<<>>)>> >>)>>)>> >>)

SkippedRecord ==
    JDict(<< <<"status", JStr(<<"n","/","a">>)>>,
             <<"severity", JStr(<<"b","a","d">>)>> >>)

\* A finding as parse_ocsf appends it.
NormalizedFinding(record, provider, product) ==
    _parse_single_finding(record, provider, product).value

\* enriched_finding.framework_refs = framework_refs
Enriched(finding, framework_refs) ==
    [OCSFEnrichedFinding(finding) EXCEPT !.framework_refs = framework_refs]

\* The findings: canonical ones with every kind of timestamp, severity and
\* status, and enriched ones with references to several frameworks.
SummaryFindings ==
    {NormalizedFinding(record, "aws", prowler) :
       record \in {IamRecord, BucketRecord, EmptyRecord, NaiveTimeRecord,
                   OffsetTimeRecord, ZuluTimeRecord, SkippedRecord,
                   BlankUidRecord}}
    \cup {NormalizedFinding(EmptyRecord, "gcp", <<"s">>)}
    \cup {Enriched(NormalizedFinding(NaiveTimeRecord, "aws", prowler),
                   <<<<"B",":","2">>, <<"A",":","1">>>>),
          Enriched(NormalizedFinding(OffsetTimeRecord, "aws", prowler),
                   <<<<"A",":","1">>, <<"A",":","2">>>>),
          Enriched(NormalizedFinding(ZuluTimeRecord, "aws", prowler),
                   <<<<"A","B",":","1",":","2">>>>),
          Enriched(NormalizedFinding(EmptyRecord, "aws", prowler), <<>>),
          Enriched(NormalizedFinding(SkippedRecord, "aws", prowler),
                   <<<<"a",":","1">>, <<"A",":","1",":","2">>>>),
          Enriched(NormalizedFinding(IamRecord, "aws", prowler), <<<<"A",":","1">>>>)}

\* The framework_prefix arguments of framework_score.
FrameworkPrefixes == {<<"A">>, <<"A","B">>, <<"B">>, <<"a">>, <<"C">>}

InitSummary ==
    /\ s_findings \in SeqsUpTo(SummaryFindings, MaxSummary)
    /\ s_prefix = <<>>
    /\ s_pc = "input"
    /\ s_result = <<>>
    /\ IdleMapping
    /\ IdleExtract
    /\ IdleParse
    /\ IdleResource
    /\ IdleWeb

GenerateFindingSummary ==
    /\ s_pc = "input"
    /\ s_pc' = "generate_finding_summary"
    /\ s_result' = generate_finding_summary(s_findings)
    /\ UNCHANGED <<s_findings, s_prefix, mvars, xvars, pvars, rvars, wvars>>

FrameworkScore ==
    /\ s_pc = "input"
    /\ \E framework_prefix \in FrameworkPrefixes :
         /\ s_prefix' = framework_prefix
         /\ s_result' = Ok(framework_score(s_findings, framework_prefix))
    /\ s_pc' = "framework_score"
    /\ UNCHANGED <<s_findings, mvars, xvars, pvars, rvars, wvars>>

NextSummary == GenerateFindingSummary \/ FrameworkScore

SpecSummary == InitSummary /\ [][NextSummary]_vars

-----------------------------------------------------------------------------
(* What the claims about summarize.py speak of *)

\* generate_finding_summary was called and returned a summary.
Summarized == s_pc = "generate_finding_summary" /\ ~s_result.raised

\* C13: generate_finding_summary returns a summary for every list of
\* findings, whatever the kinds of their timestamps, and for the empty list
\* the summary has total 0, empty count maps, no framework and zero unique
\* counts.
C13_SummaryNeverRaises ==
    s_pc = "generate_finding_summary" =>
      /\ ~s_result.raised
      /\ s_findings = <<>> =>
           /\ s_result.value.total_findings = 0
           /\ s_result.value.by_severity = <<>>
           /\ s_result.value.by_status = <<>>
           /\ s_result.value.by_provider = <<>>
           /\ s_result.value.by_product = <<>>
           /\ s_result.value.frameworks_covered = <<>>
           /\ s_result.value.unique_resources = 0
           /\ s_result.value.unique_accounts = 0

\* The part of a reference before its first colon.
RECURSIVE BeforeColon(_)
BeforeColon(ref) ==
    IF ref = <<>> \/ Head(ref) = ":" THEN <<>>
    ELSE <<Head(ref)>> \o BeforeColon(Tail(ref))

\* The references of a finding: none for a canonical finding.
RefsOf(finding) ==
    IF "framework_refs" \in DOMAIN finding
    THEN {finding.framework_refs[r] : r \in DOMAIN finding.framework_refs}
    ELSE {}

\* C14: frameworks_covered is the ascending, duplicate-free list of the
\* framework ids of the references of all the findings, canonical and
\* enriched in any order.
C14_FrameworksCovered ==
    Summarized =>
      LET covered == s_result.value.frameworks_covered IN
      /\ {covered[k] : k \in DOMAIN covered} =
           {BeforeColon(ref) :
              ref \in UNION {RefsOf(s_findings[k]) : k \in DOMAIN s_findings}}
      /\ \A j, k \in DOMAIN covered : j < k => Less(covered[j], covered[k])

\* The label a finding is counted under: its field value, unknown when unset.
LabelOf(finding, field) ==
    IF field \in {"severity", "status"} /\ finding[field] = None THEN unknown
    ELSE finding[field]

RECURSIVE SumCounts(_)
SumCounts(counter) ==
    IF counter = <<>> THEN 0 ELSE Head(counter)[2] + SumCounts(Tail(counter))

\* The count map holds, for every label some finding has and for no other,
\* the number of findings with that label; its counts sum to the total.
ExactCounts(counter, field) ==
    /\ \A j, k \in DOMAIN counter : counter[j][1] = counter[k][1] => j = k
    /\ \A k \in DOMAIN counter :
         /\ counter[k][2] > 0
         /\ counter[k][2] =
              Cardinality({f \in DOMAIN s_findings :
                             LabelOf(s_findings[f], field) = counter[k][1]})
    /\ \A f \in DOMAIN s_findings :
         \E k \in DOMAIN counter :
           counter[k][1] = LabelOf(s_findings[f], field)
    /\ SumCounts(counter) = Len(s_findings)

\* C15: in every summary each of the four count maps gives every label the
\* exact number of findings with that field value, unset severity and status
\* counted under unknown; no count is zero, and the counts of each map sum to
\* total_findings, the length of the input list.
C15_ExactCounts ==
    Summarized =>
      /\ s_result.value.total_findings = Len(s_findings)
      /\ ExactCounts(s_result.value.by_severity, "severity")
      /\ ExactCounts(s_result.value.by_status, "status")
      /\ ExactCounts(s_result.value.by_provider, "provider")
      /\ ExactCounts(s_result.value.by_product, "product")

\* C15's case: a summary of three findings of two providers, two of them
\* without severity and one with severity high.
C15_Witness ==
    /\ Summarized
    /\ Len(s_findings) = 3
    /\ CounterGet(s_result.value.by_severity, unknown) = 2
    /\ CounterGet(s_result.value.by_severity, high) = 1
    /\ CounterGet(s_result.value.by_status, unknown) = 3
    /\ Len(s_result.value.by_provider) = 2


\* The findings of the scenario: three records normalized with provider aws
\* and product prowler.
ScenarioFindings ==
    [k \in 1..3 |->
       _parse_single_finding(<<IamRecord, BucketRecord, EmptyRecord>>[k],
                             "aws", prowler).value]

\* A count map as the set of its <<label, count>> pairs.
Pairs(counter) == {counter[k] : k \in DOMAIN counter}

\* C16: the three records of the scenario normalize to three findings, with
\* the resource ids and severities of the records, and their summary has
\* total_findings 3, by_severity {high: 1, medium: 1, unknown: 1} and
\* unique_resources 2.
C16_Scenario ==
    (s_pc = "generate_finding_summary" /\ s_findings = ScenarioFindings) =>
      /\ s_findings[1].resource_id = <<"a","r","n",":","a","w","s",":","i","a","m",":",":","1","2","3",":","r","o","o","t">>
      /\ s_findings[1].severity = high
      /\ s_findings[2].resource_id = <<"a","r","n",":","a","w","s",":","s","3",":",":",":","b","u","c","k","e","t">>
      /\ s_findings[2].severity = medium
      /\ s_findings[3].resource_id = None
      /\ s_findings[3].severity = None
      /\ s_findings[3].status = None
      /\ ~s_result.raised
      /\ s_result.value.total_findings = 3
      /\ Pairs(s_result.value.by_severity) =
           {<<high, 1>>, <<medium, 1>>, <<unknown, 1>>}
      /\ s_result.value.unique_resources = 2

\* C16's case: the summary of the scenario's findings was generated.
C16_Witness ==
    /\ s_pc = "generate_finding_summary"
    /\ s_findings = ScenarioFindings
    /\ s_findings[1].product = prowler
    /\ s_findings[1].provider = "aws"
    /\ Len(s_result.value.by_severity) = 3

\* The findings counted for the framework: those with a reference whose part
\* before the first colon is the framework id.
OfFramework ==
    {k \in DOMAIN s_findings :
       \E ref \in RefsOf(s_findings[k]) : BeforeColon(ref) = s_prefix}

\* The number of those findings with a status among statuses.
WithStatus(statuses) ==
    Cardinality({k \in OfFramework : s_findings[k].status \in statuses})

\* C17: framework_score counts each finding that has a reference of the
\* framework once; pass and fail are the numbers of them with that status,
\* warn the number with status informational or not_applicable, unknown the
\* number with no status, total their number, and the four add up to total.
C17_FrameworkScore ==
    s_pc = "framework_score" =>
      /\ s_result.value.pass = WithStatus({pass})
      /\ s_result.value.fail = WithStatus({fail})
      /\ s_result.value.warn = WithStatus({informational, not_applicable})
      /\ s_result.value.unknown = WithStatus({None})
      /\ s_result.value.total = Cardinality(OfFramework)
      /\ s_result.value.pass + s_result.value.fail + s_result.value.warn
           + s_result.value.unknown = s_result.value.total

\* C17's case: three findings of framework A with status fail, pass and
\* not_applicable, one of them with two references of A, score one each.
C17_Witness ==
    /\ s_pc = "framework_score"
    /\ s_prefix = <<"A">>
    /\ Len(s_findings) = 3
    /\ \E k \in DOMAIN s_findings :
         /\ HasRefs(s_findings[k])
         /\ s_findings[k].framework_refs = <<<<"A",":","1">>, <<"A",":","2">>>>
    /\ s_result.value =
         [pass |-> 1, fail |-> 1, warn |-> 1, unknown |-> 0, total |-> 3]

-----------------------------------------------------------------------------
(* What the claims about loading and repeated enrichment speak of *)

\* The positions of the requested ids that fail to load.
Failing == {k \in DOMAIN map_ids : load_mapping(mapping_files, map_ids[k]).raised}

\* C18: when a requested rule set fails to load, apply_mapping raises the
\* loader's error for it, not-found or load error, unchanged, and returns no
\* enriched finding, whatever the findings and the other rule sets.
C18_AllOrNothing ==
    (m_pc = "done" /\ Failing /= {}) =>
      LET first == CHOOSE k \in Failing : \A j \in Failing : k <= j IN
      /\ m_result.raised
      /\ m_result.error \in {"MappingNotFoundError", "MappingLoadError"}
      /\ m_result = load_mapping(mapping_files, map_ids[first])
      /\ "value" \notin DOMAIN m_result

\* C18's case: a finding whose rule set loads and matches it, requested
\* together with a rule set whose file fails validation.
C18_Witness ==
    /\ m_pc = "done"
    /\ map_ids = <<MapIdB, MapIdA>>
    /\ findings = <<Finding(<<"p">>, <<"a">>, None)>>
    /\ m_result.raised
    /\ m_result.error = "MappingLoadError"

\* C19: enriching the result of an enrichment again with the same ids gives
\* every finding the framework_refs it had, in content and order.
C19_Idempotent ==
    m_pc = "again" =>
      /\ ~m_result.raised
      /\ Len(m_result.value) = Len(findings)
      /\ \A k \in DOMAIN findings :
           m_result.value[k].framework_refs = findings[k].framework_refs

\* C19's case: a finding that two rule sets gave three references was
\* enriched again.
C19_Witness ==
    /\ m_pc = "again"
    /\ Len(DistinctIds(map_ids)) = 2
    /\ \E k \in DOMAIN findings :
         /\ Len(findings[k].framework_refs) = 3
         /\ m_result.value[k].framework_refs = findings[k].framework_refs

-----------------------------------------------------------------------------
(* load_mapping called on its own *)

\* A dict without the entry of key.
Without(d, key) == SelectSeq(d, LAMBDA entry : entry[1] /= key)

\* The fields of a rule-set file that states one rule.
FullFile(map_id) ==
    Append(Header(map_id),
           <<"rules", JList(<<RuleData(RuleSetB[1])>>)>>)

\* What <map_id>.yaml may be: absent; text that is no YAML; YAML whose top
\* level is no mapping (the empty file, a list, a scalar); a rule set, with
\* and without the optional fields; a mapping that lacks a required field,
\* holds an unknown field or a field of the wrong type; a rule that lacks a
\* field or holds an unknown one; a rule set that declares the id of another
\* file; a rule whose source holds no colon, no product or nothing at all.
LoadContents(map_id) ==
    {[kind |-> "absent"], [kind |-> "malformed"]}
    \cup {RuleSetFile(other, RuleSetB) : other \in MapIds \ {map_id}}
    \cup {RuleSetFile(map_id, <<MappingRule(source, <<"1">>, None)>>) :
            source \in {<<"p", "a">>, <<":", "a">>, <<>>}}
    \cup {[kind |-> "yaml", data |-> d] :
            d \in {JNull, JList(<<>>), JStr(<<"x">>)}}
    \cup {RuleSetFile(map_id, rules) :
            rules \in SeqsUpTo(MappingRules, MaxRules)}
    \cup {[kind |-> "yaml", data |-> JDict(Append(FullFile(map_id), extra))] :
            extra \in {<<"provider", JStr(<<"a","w","s">>)>>,
                       <<"provider", JNull>>,
                       <<"provider", JList(<<>>)>>,
                       <<"metadata", JNull>>,
                       <<"metadata", JDict(<<>>)>>,
                       <<"categories", JList(<<>>)>>,
                       <<"categories",
                         JList(<<JDict(<< <<"id", JStr(<<"c">>)>>,
                                          <<"name", JStr(<<"n">>)>>,
                                          <<"controls",
                                            JList(<<JStr(<<"9">>)>>)>> >>)>>)>>,
                       <<"categories",
                         JList(<<JDict(<< <<"id", JStr(<<"c">>)>> >>)>>)>>,
                       <<"categories",
                         JList(<<JDict(<< <<"id", JStr(<<"c">>)>>,
                                          <<"name", JStr(<<"n">>)>>,
                                          <<"controls",
                                            JList(<<JStr(<<"9">>),
                                                    JStr(<<"1">>)>>)>> >>),
                                 JDict(<< <<"id", JStr(<<"d">>)>>,
                                          <<"name", JStr(<<"m">>)>>,
                                          <<"controls", JList(<<>>)>> >>)>>)>>,
                       <<"categories", JNull>>,
                       <<"owner", JStr(<<"x">>)>>}}
    \cup {[kind |-> "yaml", data |-> JDict(Without(FullFile(map_id), key))] :
            key \in ComplianceMappingRequired}
    \cup {[kind |-> "yaml",
           data |-> JDict(Append(Without(FullFile(map_id), "version"),
                                 <<"version", JList(<<>>)>>))]}
    \cup {[kind |-> "yaml",
           data |-> JDict(Append(Header(map_id), <<"rules", rules>>))] :
            rules \in {JNull, JDict(<<>>),
                       JList(<<JNull>>),
                       JList(<<JDict(Without(RuleData(RuleSetB[1]).v,
                                             "title"))>>),
                       JList(<<JDict(Append(RuleData(RuleSetB[1]).v,
                                            <<"owner", JStr(<<"x">>)>>))>>),
                       JList(<<RuleData(RuleSetB[1]),
                               JDict(Append(Without(RuleData(RuleSetB[1]).v,
                                                    "target"),
                                            <<"target", JList(<<>>)>>))>>)}}

\* The directory holds A.yaml in any of its forms; B.yaml is absent or a rule
\* set; Z.yaml is absent or no YAML. One id is asked for.
InitLoad ==
    /\ \E a \in LoadContents(MapIdA),
          b \in {[kind |-> "absent"], RuleSetFile(MapIdB, RuleSetB)},
          z \in {[kind |-> "absent"], [kind |-> "malformed"]} :
         mapping_files = (MapIdA :> a) @@ (MapIdB :> b) @@ (MapIdZ :> z)
    /\ \E id \in MapIds : map_ids = <<id>>
    /\ findings = <<>>
    /\ m_pc = "load"
    /\ m_result = <<>>
    /\ IdleExtract
    /\ IdleParse
    /\ IdleSummary
    /\ IdleResource
    /\ IdleWeb

LoadMapping ==
    /\ m_pc = "load"
    /\ m_result' = load_mapping(mapping_files, map_ids[1])
    /\ m_pc' = "loaded"
    /\ UNCHANGED <<mapping_files, findings, map_ids, xvars, pvars, svars, rvars, wvars>>

\* The try block of validate_mapping_file: yaml.safe_load, then
\* ComplianceMapping(**data), where ** of a value that is no mapping raises
\* TypeError.
ValidateTry(mapping_file) ==
    IF mapping_file.kind = "malformed" THEN Raise("YAMLError")
    ELSE IF mapping_file.data.t /= "dict" THEN Raise("TypeError")
    ELSE LET mapping == ComplianceMapping(mapping_file.data) IN
         IF mapping.raised THEN mapping ELSE Ok(<<TRUE, <<>>>>)

\* validate_mapping_file with "except Exception" narrowed to the validation
\* error
ValidateMappingFileNarrow(files, path) ==
    IF files[path].kind = "absent"
    THEN Ok(<<FALSE, << <<"File does not exist: ", path>> >> >>)
    ELSE LET r == ValidateTry(files[path]) IN
         IF ~r.raised THEN r
         ELSE IF r.error = "YAMLError"
         THEN Ok(<<FALSE, << <<"YAML parsing error: ", r.error>> >> >>)
         ELSE IF r.error = "ValidationError"
         THEN Ok(<<FALSE, << <<"Validation error: ", r.error>> >> >>)
         ELSE r

\* validate_mapping_file: the pair (is_valid, errors).
validate_mapping_file(files, path) ==
    IF files[path].kind = "absent"
    THEN Ok(<<FALSE, << <<"File does not exist: ", path>> >> >>)
    ELSE LET r == ValidateTry(files[path]) IN
         IF ~r.raised THEN r
         ELSE IF r.error = "YAMLError"
         THEN Ok(<<FALSE, << <<"YAML parsing error: ", r.error>> >> >>)
         ELSE Ok(<<FALSE, << <<"Validation error: ", r.error>> >> >>)

\* for category in mapping.categories:
\*     controls_by_category[category.name] = category.controls
RECURSIVE ControlsByCategory(_, _)
ControlsByCategory(categories, controls_by_category) ==
    IF categories = <<>> THEN controls_by_category
    ELSE ControlsByCategory(Tail(categories),
                            DictSet(controls_by_category,
                                    Head(categories).name,
                                    Head(categories).controls))

\* The name of the default category.
AllControls == <<"All Controls">>

\* get_framework_controls with the default category in file order
GetFrameworkControlsUnsorted(files, map_id) ==
    LET mapping == load_mapping(files, map_id) IN
    IF mapping.raised THEN mapping
    ELSE LET controls_by_category ==
                 ControlsByCategory(mapping.value.categories, <<>>)
             all_controls == [k \in DOMAIN mapping.value.rules |->
                                mapping.value.rules[k].target] IN
         IF controls_by_category = <<>>
         THEN Ok(<< <<AllControls, all_controls>> >>)
         ELSE Ok(controls_by_category)

\* get_framework_controls: the dict from category name to controls, in
\* insertion order.
get_framework_controls(files, map_id) ==
    LET mapping == load_mapping(files, map_id) IN
    IF mapping.raised THEN mapping
    ELSE LET controls_by_category ==
                 ControlsByCategory(mapping.value.categories, <<>>)
             all_controls == [k \in DOMAIN mapping.value.rules |->
                                mapping.value.rules[k].target] IN
         IF controls_by_category = <<>>
         THEN Ok(<< <<AllControls,
                      sorted({all_controls[k] : k \in DOMAIN all_controls})>> >>)
         ELSE Ok(controls_by_category)

ValidateMappingFile ==
    /\ m_pc = "load"
    /\ m_result' = validate_mapping_file(mapping_files, map_ids[1])
    /\ m_pc' = "validated"
    /\ UNCHANGED <<mapping_files, findings, map_ids, xvars, pvars, svars, rvars, wvars>>

GetFrameworkControls ==
    /\ m_pc = "load"
    /\ m_result' = get_framework_controls(mapping_files, map_ids[1])
    /\ m_pc' = "controls"
    /\ UNCHANGED <<mapping_files, findings, map_ids, xvars, pvars, svars, rvars, wvars>>

NextLoad == LoadMapping \/ ValidateMappingFile \/ GetFrameworkControls

SpecLoad == InitLoad /\ [][NextLoad]_vars

-----------------------------------------------------------------------------
(* What the claims about load_mapping speak of *)

\* The file asked for.
Asked == mapping_files[map_ids[1]]

\* The ids whose file exists.
Existing == {id \in DOMAIN mapping_files : mapping_files[id].kind /= "absent"}

\* A list of ids in ascending order, no id twice.
Ascending(ids) ==
    \A i, j \in DOMAIN ids : i < j => Less(ids[i], ids[j])

\* The top level of the file is a mapping.
TopIsMapping == Asked.kind = "yaml" /\ Asked.data.t = "dict"

\* A rule as the file states it: a mapping of the four required strings and
\* at most a severity that is a string or null.
ShapedRule(x) ==
    /\ x.t = "dict"
    /\ \A key \in {"source", "target", "title", "description"} :
         \E k \in DOMAIN x.v : x.v[k][1] = key /\ x.v[k][2].t = "str"
    /\ \A k \in DOMAIN x.v :
         \/ x.v[k][1] \in {"source", "target", "title", "description"}
         \/ x.v[k][1] = "severity" /\ x.v[k][2].t \in {"str", "NoneType"}

\* C20: load_mapping returns or raises. For an id without file it raises the
\* not-found error, whose message lists, in ascending order, exactly the ids
\* whose file exists. For a file that is no YAML, whose top level is no
\* mapping, that lacks a required field or holds an unknown top-level field
\* it raises the load error. What it returns comes from a mapping that holds
\* every required field, no unknown field and only well-shaped rules, and it
\* states the rules of the file, all of them and in file order.
C20_LoadOrRaise ==
    m_pc = "loaded" =>
      /\ Asked.kind = "absent" =>
           /\ m_result.raised
           /\ m_result.error = "MappingNotFoundError"
           /\ m_result.message[2] = map_ids[1]
           /\ Ascending(m_result.message[4])
           /\ {m_result.message[4][k] : k \in DOMAIN m_result.message[4]}
                = Existing
      /\ (\/ Asked.kind = "malformed"
          \/ Asked.kind = "yaml" /\ Asked.data.t /= "dict"
          \/ TopIsMapping /\ \E key \in ComplianceMappingRequired :
                               ~HasKey(Asked.data, key)
          \/ TopIsMapping /\ \E key \in Keys(Asked.data) :
                               key \notin ComplianceMappingRequired
                                            \cup ComplianceMappingOptional) =>
           /\ m_result.raised
           /\ m_result.error = "MappingLoadError"
      /\ m_result.raised =>
           /\ m_result.error \in {"MappingNotFoundError", "MappingLoadError"}
           /\ "value" \notin DOMAIN m_result
      /\ ~m_result.raised =>
           /\ TopIsMapping
           /\ \A key \in ComplianceMappingRequired : HasKey(Asked.data, key)
           /\ Keys(Asked.data) \subseteq
                ComplianceMappingRequired \cup ComplianceMappingOptional
           /\ Item(Asked.data, "rules").t = "list"
           /\ LET rules == Item(Asked.data, "rules").v IN
              /\ \A k \in DOMAIN rules : ShapedRule(rules[k])
              /\ Len(m_result.value.rules) = Len(rules)
              /\ \A k \in DOMAIN rules :
                   /\ m_result.value.rules[k].source
                        = Item(rules[k], "source").v
                   /\ m_result.value.rules[k].target
                        = Item(rules[k], "target").v
           /\ m_result.value.map_id = Item(Asked.data, "map_id").v

\* C20's case: the id Z without file asked for while A.yaml and B.yaml exist;
\* the not-found error lists A and B.
C20_Witness ==
    /\ m_pc = "loaded"
    /\ map_ids = <<MapIdZ>>
    /\ Asked.kind = "absent"
    /\ mapping_files[MapIdA].kind = "malformed"
    /\ m_result.raised
    /\ m_result.error = "MappingNotFoundError"
    /\ m_result.message[4] = <<MapIdA, MapIdB>>

-----------------------------------------------------------------------------
(* What the claims about the loaded rule set speak of *)

\* load_mapping returned a rule set.
Loaded == m_pc = "loaded" /\ ~m_result.raised

\* C21: a rule set that loads declares the id it was asked for by, the stem
\* of its file.
C21_MapIdIsStorageKey ==
    Loaded => m_result.value.map_id = map_ids[1]

\* A source of the form product:check_id: a colon after a non-empty product.
HasSourceForm(source) ==
    \E k \in DOMAIN source : source[k] = ":" /\ k > 1

\* C22: every rule of a rule set that loads has a source of the form
\* product:check_id, so a file with a rule whose source holds no colon does
\* not load.
C22_SourceForm ==
    Loaded =>
      \A k \in DOMAIN m_result.value.rules :
        HasSourceForm(m_result.value.rules[k].source)

\* C23: validate_mapping_file returns a pair for every file, never raising:
\* (TRUE, no error) exactly when load_mapping accepts the file, and otherwise
\* FALSE with at least one error message.
C23_ValidateNeverRaises ==
    m_pc = "validated" =>
      /\ ~m_result.raised
      /\ Len(m_result.value) = 2
      /\ m_result.value[1] \in BOOLEAN
      /\ m_result.value[1]
           <=> ~load_mapping(mapping_files, map_ids[1]).raised
      /\ m_result.value[1] => m_result.value[2] = <<>>
      /\ ~m_result.value[1] => Len(m_result.value[2]) >= 1

\* C23's case: a file whose top level is the empty document, no mapping, was
\* validated and found invalid.
C23_Witness ==
    /\ m_pc = "validated"
    /\ Asked.kind = "yaml"
    /\ Asked.data = JNull
    /\ ~m_result.raised
    /\ m_result.value[1] = FALSE
    /\ Len(m_result.value[2]) = 1

\* The categories and the rules the file asked for states.
AskedCategories ==
    IF HasKey(Asked.data, "categories")
    THEN Item(Asked.data, "categories").v ELSE <<>>

AskedRules == Item(Asked.data, "rules").v

\* C24: for a rule set with categories get_framework_controls maps each
\* category name to the controls of that category and holds nothing else;
\* for one without it holds the single entry All Controls, the targets of
\* all the rules in ascending order, each once.
C24_FrameworkControls ==
    (m_pc = "controls" /\ ~m_result.raised) =>
      LET result == m_result.value IN
      IF AskedCategories = <<>>
      THEN /\ Len(result) = 1
           /\ result[1][1] = AllControls
           /\ Ascending(result[1][2])
           /\ {result[1][2][k] : k \in DOMAIN result[1][2]}
                = {Item(AskedRules[k], "target").v : k \in DOMAIN AskedRules}
      ELSE /\ \A k \in DOMAIN AskedCategories :
                \E j \in DOMAIN result :
                  /\ result[j][1] = Item(AskedCategories[k], "name").v
                  /\ Len(result[j][2])
                       = Len(Item(AskedCategories[k], "controls").v)
                  /\ \A i \in DOMAIN result[j][2] :
                       result[j][2][i]
                         = Item(AskedCategories[k], "controls").v[i].v
           /\ \A j \in DOMAIN result :
                \E k \in DOMAIN AskedCategories :
                  result[j][1] = Item(AskedCategories[k], "name").v
           /\ \A i, j \in DOMAIN result :
                result[i][1] = result[j][1] => i = j

\* C24's case: a rule set without categories whose rules target control 3 and
\* then control 1; All Controls lists 1 before 3.
C24_Witness ==
    /\ m_pc = "controls"
    /\ ~m_result.raised
    /\ AskedCategories = <<>>
    /\ Len(AskedRules) = 2
    /\ Item(AskedRules[1], "target").v = <<"3">>
    /\ Item(AskedRules[2], "target").v = <<"1">>
    /\ m_result.value = << <<AllControls, << <<"1">>, <<"3">> >> >> >>

-----------------------------------------------------------------------------
(* What the claims about resources and the time range speak of *)

\* The values of a field across the findings, those of left_out excepted.
ValuesBut(field, left_out) ==
    {s_findings[k][field] : k \in DOMAIN s_findings} \ left_out

Moment(time) ==
    IF time.tzinfo = "naive" THEN Minutes[time.local]
    ELSE Minutes[time.local] - OffsetMinutes[time.tzinfo]

\* C26: the summary of the empty list has a null start and end; that of a
\* non-empty list has as start a timestamp of the list that none is earlier
\* than, and as end one that none is later than.
C26_TimeRange ==
    s_pc = "generate_finding_summary" =>
      /\ ~s_result.raised
      /\ LET range == s_result.value.scan_time_range
             times == {s_findings[k].time : k \in DOMAIN s_findings} IN
         IF s_findings = <<>>
         THEN range.start = None /\ range.end = None
         ELSE /\ range.start \in times
              /\ range.end \in times
              /\ \A time \in times :
                   /\ Moment(range.start) <= Moment(time)
                   /\ Moment(time) <= Moment(range.end)

\* The same for the lists whose summary is returned.
C26_TimeRangeWhenReturned ==
    Summarized =>
      LET range == s_result.value.scan_time_range
          times == {s_findings[k].time : k \in DOMAIN s_findings} IN
      IF s_findings = <<>>
      THEN range.start = None /\ range.end = None
      ELSE /\ range.start \in times
           /\ range.end \in times
           /\ \A time \in times :
                /\ Moment(range.start) <= Moment(time)
                /\ Moment(time) <= Moment(range.end)

-----------------------------------------------------------------------------
(* summarize.py: the resource type of a resource identifier *)

MaxPieces == 4     \* pieces a resource identifier is put together from

\* sub in str, as the index of the first occurrence, 0 when there is none
Find(str, sub) ==
    LET at == {k \in 1..(Len(str) - Len(sub) + 1) :
                 SubSeq(str, k, k + Len(sub) - 1) = sub} IN
    IF at = {} THEN 0 ELSE CHOOSE k \in at : \A other \in at : k <= other

\* sub in str
In(sub, str) == Find(str, sub) /= 0

\* str.split(sep)
RECURSIVE Split(_, _)
Split(str, sep) ==
    LET k == Find(str, sep) IN
    IF k = 0 THEN <<str>>
    ELSE <<SubSeq(str, 1, k - 1)>>
           \o Split(SubSeq(str, k + Len(sep), Len(str)), sep)

\* parts.index(x), counted from 1, of a list that holds x
IndexOf(parts, x) ==
    CHOOSE k \in DOMAIN parts :
        parts[k] = x /\ \A other \in 1..(k - 1) : parts[other] /= x

ArnAws == <<"a","r","n",":","a","w","s",":">>
Googleapis == <<"g","o","o","g","l","e","a","p","i","s",".","c","o","m">>
Subscriptions ==
    <<"/","s","u","b","s","c","r","i","p","t","i","o","n","s","/">>
Providers == <<"p","r","o","v","i","d","e","r","s">>

\* The Azure branch of _extract_resource_type, None when it returns nothing.
AzureResourceType(resource_id) ==
    LET parts == Split(resource_id, <<"/">>) IN
    IF \E k \in DOMAIN parts : parts[k] = Providers
    THEN LET provider_idx == IndexOf(parts, Providers) IN
         IF provider_idx + 1 <= Len(parts)
         THEN IF provider_idx + 2 <= Len(parts)
              THEN parts[provider_idx + 1] \o <<"/">> \o parts[provider_idx + 2]
              ELSE parts[provider_idx + 1]
         ELSE None
    ELSE None

\* _extract_resource_type with the Azure branch taken by every identifier
\* that holds "/subscriptions/".
ExtractResourceTypeAnywhere(resource_id) ==
    IF StartsWith(resource_id, ArnAws)
    THEN Split(resource_id, <<":">>)[3]
    ELSE IF In(Googleapis, resource_id) /\ In(<<"/","/">>, resource_id)
    THEN Split(Split(resource_id, <<"/","/">>)[2], <<".">>)[1]
    ELSE IF In(Subscriptions, resource_id)
    THEN AzureResourceType(resource_id)
    ELSE None

\* _extract_resource_type(resource_id). An identifier that starts with
\* "arn:aws:" splits into three parts at least, so the first branch always
\* returns; the other branches fall through to the next one.
_extract_resource_type(resource_id) ==
    IF StartsWith(resource_id, ArnAws)
         /\ Len(Split(resource_id, <<":">>)) >= 3
    THEN Split(resource_id, <<":">>)[3]
    ELSE IF In(Googleapis, resource_id) /\ In(<<"/","/">>, resource_id)
    THEN Split(Split(resource_id, <<"/","/">>)[2], <<".">>)[1]
    ELSE IF StartsWith(resource_id, Subscriptions)
    THEN AzureResourceType(resource_id)
    ELSE None

\* The pieces identifiers are put together from: the literals the function
\* looks for, the separators it splits at, and path segments.
Pieces ==
    {ArnAws, Googleapis, Subscriptions, <<"/">> \o Providers,
     <<"s","3">>, <<":">>, <<".">>, <<"/","/">>, <<"/","P">>, <<"/","t">>}

RECURSIVE Concat(_)
Concat(pieces) ==
    IF pieces = <<>> THEN <<>> ELSE pieces[1] \o Concat(Tail(pieces))

ResourceIds(n) == {Concat(pieces) : pieces \in SeqsUpTo(Pieces, n)}

InitResourceType ==
    /\ r_resource_id \in ResourceIds(MaxPieces)
    /\ r_pc = "input"
    /\ r_result = <<>>
    /\ IdleMapping
    /\ IdleExtract
    /\ IdleParse
    /\ IdleSummary
    /\ IdleWeb

ExtractResourceType ==
    /\ r_pc = "input"
    /\ r_pc' = "returned"
    /\ r_result' = _extract_resource_type(r_resource_id)
    /\ UNCHANGED <<r_resource_id, mvars, xvars, pvars, svars, wvars>>

NextResourceType == ExtractResourceType

SpecResourceType == InitResourceType /\ [][NextResourceType]_vars

-----------------------------------------------------------------------------
(* What the claim about the resource type speaks of *)

\* str up to, and without, the first occurrence of any of the stops
UpTo(str, stops) ==
    LET at == {Find(str, stop) : stop \in stops} \ {0} IN
    IF at = {} THEN str
    ELSE SubSeq(str, 1, (CHOOSE k \in at : \A other \in at : k <= other) - 1)

\* str after the first occurrence of sub, which it holds
Past(str, sub) == SubSeq(str, Find(str, sub) + Len(sub), Len(str))

\* The host of a URL-like identifier: what follows its first "//", or the
\* identifier itself when it has none, up to the next "/".
Host(resource_id) ==
    UpTo(IF In(<<"/","/">>, resource_id)
           THEN Past(resource_id, <<"/","/">>)
           ELSE resource_id,
           {<<"/">>})

\* "<provider>/<type>" of the path that follows "/providers/" in an
\* identifier that holds it, "<provider>" alone when no type segment follows.
ProviderAndType(resource_id) ==
    LET parts == Split(Past(resource_id, <<"/">> \o Providers \o <<"/">>),
                       <<"/">>) IN
    IF Len(parts) = 1 THEN parts[1] ELSE parts[1] \o <<"/">> \o parts[2]

\* C27 as stated: the resource type is the third colon-delimited segment of an
\* identifier starting "arn:aws:", the first DNS label of the host of an
\* identifier containing "googleapis.com", "<provider>/<type>" (or
\* "<provider>") of a path containing "/subscriptions/" and later
\* "/providers/<provider>", and absent for every other identifier.
C27_ResourceTypeAsStated ==
    r_pc = "returned" =>
      LET id == r_resource_id IN
      IF StartsWith(id, ArnAws)
      THEN r_result = Split(id, <<":">>)[3]
      ELSE IF In(Googleapis, id)
      THEN r_result = UpTo(Host(id), {<<".">>})
      ELSE IF /\ In(Subscriptions, id)
              /\ In(<<"/">> \o Providers \o <<"/">>, Past(id, <<"/">>))
      THEN r_result = ProviderAndType(id)
      ELSE r_result = None

\* C27 amended: the resource type is the third colon-delimited segment of an
\* identifier starting "arn:aws:"; else, of an identifier that holds both
\* "googleapis.com" and "//", the text after its first "//" up to the next "."
\* or "//"; else, of an identifier starting "/subscriptions/" with a path
\* segment "providers" that is not the last, the segment after the first such
\* segment, joined by "/" with the segment after that one when there is one;
\* and absent for every other identifier, the empty string included.
C27_ResourceType ==
    r_pc = "returned" =>
      LET id == r_resource_id
          parts == Split(id, <<"/">>)
          followed == {k \in 1..(Len(parts) - 1) : parts[k] = Providers} IN
      IF StartsWith(id, ArnAws)
      THEN r_result = Split(id, <<":">>)[3]
      ELSE IF In(Googleapis, id) /\ In(<<"/","/">>, id)
      THEN r_result = UpTo(Past(id, <<"/","/">>), {<<".">>, <<"/","/">>})
      ELSE IF /\ StartsWith(id, Subscriptions)
              /\ \E k \in followed : \A other \in 1..(k - 1) :
                                         parts[other] /= Providers
      THEN LET k == CHOOSE k \in followed : \A other \in followed : k <= other
           IN r_result = IF k + 1 = Len(parts) THEN parts[k + 1]
                         ELSE parts[k + 1] \o <<"/">> \o parts[k + 2]
      ELSE r_result = None

\* C27's case: 'arn:aws:s3::' gives 's3'.
C27_Witness ==
    /\ r_pc = "returned"
    /\ r_resource_id = ArnAws \o <<"s","3",":",":">>
    /\ r_result = <<"s","3">>

\* The other branches are taken too: '//s3.googleapis.com' gives 's3',
\* '/subscriptions//providers/P/t' gives 'P/t', and '' gives nothing.
C27_Branches ==
    r_pc = "returned" =>
      /\ r_resource_id = <<"/","/","s","3",".">> \o Googleapis
           => r_result = <<"s","3">>
      /\ r_resource_id = Subscriptions \o <<"/">> \o Providers
                           \o <<"/","P","/","t">>
           => r_result = <<"P","/","t">>
      /\ r_resource_id = Subscriptions \o <<"/">> \o Providers \o <<"/","P">>
           => r_result = <<"P">>
      /\ r_resource_id = <<>> => r_result = None

-----------------------------------------------------------------------------
(* apply_mapping on lists of whole findings *)

MaxEnriched == 2   \* findings of whole fields given to apply_mapping

\* The fields an OCSFFinding is made of besides severity.
CanonicalFields ==
    {"time", "provider", "product", "status", "resource_id", "account_id",
     "region", "check_id", "title", "description", "remediation", "raw"}

\* An OCSFFinding with every canonical field; the title tells the findings apart.
WholeFinding(check_id, severity, title) ==
    [time |-> <<"2","0","2","4">>, provider |-> <<"a","w","s">>,
     product |-> <<"p">>, severity |-> severity, status |-> fail,
     resource_id |-> <<"r">>, account_id |-> None, region |-> None,
     check_id |-> check_id, title |-> title, description |-> None,
     remediation |-> <<"f","i","x">>,
     raw |-> JDict(<<<<"title", JStr(title)>>>>)]

WholeFindings ==
    {WholeFinding(check_id, severity, title) :
       check_id \in {<<"a">>, None},
       severity \in {None, medium},
       title \in {<<"s">>, <<"t">>}}

\* A.yaml holds no rule, one rule or two rules with severities for p:a, B.yaml
\* one rule for p:a, and Z.yaml does not exist.
InitEnrich ==
    /\ \E rules \in {<<>>,
                     <<MappingRule(<<"p",":","a">>, <<"1">>, None)>>,
                     <<MappingRule(<<"p",":","a">>, <<"2">>, high),
                       MappingRule(<<"p",":","a">>, <<"3">>, critical)>>} :
         mapping_files = (MapIdA :> RuleSetFile(MapIdA, rules)) @@
                         (MapIdB :> RuleSetFile(MapIdB, RuleSetB)) @@
                         (MapIdZ :> [kind |-> "absent"])
    /\ findings \in SeqsUpTo(WholeFindings, MaxEnriched)
    /\ map_ids \in {<<>>, <<MapIdA>>, <<MapIdB, MapIdA>>, <<MapIdA, MapIdZ>>}
    /\ m_pc = "call"
    /\ m_result = <<>>
    /\ IdleExtract
    /\ IdleParse
    /\ IdleSummary
    /\ IdleResource
    /\ IdleWeb

SpecEnrich == InitEnrich /\ [][NextMapping]_vars

\* The enriched list keeps the list it was made from: as long, and finding by
\* finding with the same fields but framework_refs and an unset severity.
Kept(input, output) ==
    /\ Len(output) = Len(input)
    /\ \A i \in DOMAIN input :
         /\ DOMAIN output[i] = DOMAIN input[i] \cup {"framework_refs"}
         /\ \A field \in CanonicalFields : output[i][field] = input[i][field]
         /\ input[i].severity /= None
              => output[i].severity = input[i].severity

\* C28: a call of apply_mapping that returns leaves the findings it was given
\* as they were, and returns a list as long as theirs whose i-th finding has
\* the canonical fields of the i-th finding given; only framework_refs and a
\* severity that was unset differ.
C28_FrameOfApplyMapping ==
    [][LET given == IF m_pc = "call" THEN findings ELSE m_result.value IN
       (m_pc' /= m_pc /\ ~m_result'.raised)
         => /\ findings' = given
            /\ Kept(given, m_result'.value)]_vars

\* C28's case: of two different findings given, the first comes back with
\* references and a severity it did not have and the second as it was.
C28_Witness ==
    /\ m_pc = "done"
    /\ ~m_result.raised
    /\ Len(findings) = 2
    /\ findings[1].title /= findings[2].title
    /\ findings[1].severity = None
    /\ m_result.value[1].severity = high
    /\ m_result.value[1].framework_refs /= <<>>
    /\ m_result.value[2] = OCSFEnrichedFinding(findings[2])

-----------------------------------------------------------------------------
(* What the claim about the remediation speaks of *)

C29_RemediationOrder ==
    << <<"finding", "remediation", "desc">>,
       <<"finding", "remediation", "description">>,
       <<"remediation", "desc">>, <<"remediation", "description">>,
       <<"remediation">>, <<"recommendation">>, <<"fix">> >>

\* A candidate that yields a result: one with a non-empty value, which for
\* the top-level remediation has to be a string.
YieldsRemediation(raw, candidate) ==
    /\ NonEmptyValue(Resolve(raw, candidate))
    /\ candidate = <<"remediation">> => Resolve(raw, candidate).t = "str"

\* C29: the remediation is the string value of the first candidate, in the
\* order finding.remediation.desc, finding.remediation.description,
\* remediation.desc, remediation.description, remediation, recommendation,
\* fix, that yields a result; the top-level remediation yields one only when
\* it is a string, so a mapping there with no non-empty desc or description
\* falls through to recommendation and fix.
C29_RemediationDirectString ==
    x_pc = "_extract_remediation" =>
      LET hits == {k \in DOMAIN C29_RemediationOrder :
                     YieldsRemediation(raw_finding, C29_RemediationOrder[k])}
      IN x_result =
           Ok(IF hits = {} THEN None
              ELSE Str(Resolve(raw_finding,
                               C29_RemediationOrder[
                                 CHOOSE k \in hits : \A j \in hits : k <= j])))

\* Whatever the top-level remediation is, the result is the string value of
\* the first candidate of the order whose value is non-empty.
C29_RemediationFirstNonEmpty ==
    x_pc = "_extract_remediation" =>
      x_result = Ok(FirstNonEmpty(raw_finding, C29_RemediationOrder))

-----------------------------------------------------------------------------
(* cs_kit/web/app.py: scans started over HTTP *)

MaxScans == 3      \* scans recorded in scan_results

\* What the body of a POST /api/scan request may be.
Requests ==
    {"no json", "invalid provider", "no access keys", "no frameworks", "valid"}

\* start_scan: the whole view. A request that fails a validation is answered
\* 400 before anything is recorded, and one without a JSON body 500. A valid
\* one is recorded as running under a fresh scan_id and then handed to
\* asyncio.create_task, which schedules the coroutine on the running event
\* loop of the calling thread and raises RuntimeError when there is none; the
\* view answers that error with 500 and leaves the record as it is.
StartScan ==
    \E data \in Requests :
       /\ data = "valid" => Len(scan_results) < MaxScans
       /\ IF data = "valid"
          THEN /\ scan_results' = Append(scan_results, [status |-> "running"])
               /\ IF loop_running
                  THEN /\ tasks' = Append(tasks, "created")
                       /\ response' = 200
                  ELSE /\ tasks' = Append(tasks, "unscheduled")
                       /\ response' = 500
          ELSE /\ response' = IF data = "no json" THEN 500 ELSE 400
               /\ UNCHANGED <<scan_results, tasks>>
       /\ UNCHANGED <<loop_running, mvars, xvars, pvars, svars, rvars>>

\* scan_results[scan_id].update({"status": status, ...})
Update(scan_id, status) ==
    [scan_results EXCEPT ![scan_id] = [@ EXCEPT !.status = status]]

\* run_scan_async up to "await run_prowler(...)": the task raises before it
\* (no directory, no configuration, no scanner) and records the failure, or
\* it awaits the scanner.
RunScanBegin(scan_id) ==
    /\ scan_id \in DOMAIN tasks
    /\ tasks[scan_id] = "created"
    /\ \/ /\ tasks' = [tasks EXCEPT ![scan_id] = "awaiting"]
          /\ UNCHANGED scan_results
       \/ /\ tasks' = [tasks EXCEPT ![scan_id] = "done"]
          /\ scan_results' = Update(scan_id, "failed")
    /\ UNCHANGED <<loop_running, response, mvars, xvars, pvars, svars, rvars>>

\* run_scan_async from the return of run_prowler on: the scanner, the parser,
\* the summary or a write raises and the failure is recorded, or the results
\* are written and the scan is recorded as completed.
RunScanResume(scan_id) ==
    /\ scan_id \in DOMAIN tasks
    /\ tasks[scan_id] = "awaiting"
    /\ tasks' = [tasks EXCEPT ![scan_id] = "done"]
    /\ \E status \in {"completed", "failed"} :
          scan_results' = Update(scan_id, status)
    /\ UNCHANGED <<loop_running, response, mvars, xvars, pvars, svars, rvars>>

\* get_scan_status(scan_id)
GetScanStatus ==
    /\ \E scan_id \in 1..MaxScans :
          response' = IF scan_id \in DOMAIN scan_results THEN 200 ELSE 404
    /\ UNCHANGED <<scan_results, tasks, loop_running,
                   mvars, xvars, pvars, svars, rvars>>

\* The application has recorded no scan; the thread that serves the requests
\* runs an event loop or, as under app.run, none.
InitWeb ==
    /\ scan_results = <<>>
    /\ tasks = <<>>
    /\ loop_running \in BOOLEAN
    /\ response = 0
    /\ IdleMapping
    /\ IdleExtract
    /\ IdleParse
    /\ IdleSummary
    /\ IdleResource

RunScanAsync == \E scan_id \in 1..MaxScans :
                   RunScanBegin(scan_id) \/ RunScanResume(scan_id)

NextWeb == StartScan \/ RunScanAsync \/ GetScanStatus

SpecWeb == InitWeb /\ [][NextWeb]_vars

\* The event loop runs every task it holds, and the scanner an awaiting task
\* waits for returns or raises.
SpecWebFair ==
    /\ SpecWeb
    /\ \A scan_id \in 1..MaxScans :
          /\ WF_vars(RunScanBegin(scan_id))
          /\ WF_vars(RunScanResume(scan_id))

Terminal == {"completed", "failed"}

Recorded(scan_id, statuses) ==
    /\ scan_id \in DOMAIN scan_results
    /\ scan_results[scan_id].status \in statuses

\* C30: every scan recorded as running is eventually recorded as completed or
\* failed, and a scan recorded as completed or failed is never recorded as
\* running again.
C30_EveryScanEnds ==
    /\ \A scan_id \in 1..MaxScans :
          Recorded(scan_id, {"running"}) ~> Recorded(scan_id, Terminal)
    /\ [][\A scan_id \in 1..MaxScans :
            Recorded(scan_id, Terminal) => Recorded(scan_id, Terminal)']_vars

\* A scan whose task was scheduled does end, and no terminal status is ever
\* taken back.
C30_ScheduledScanEnds ==
    /\ \A scan_id \in 1..MaxScans :
          (Recorded(scan_id, {"running"}) /\ tasks[scan_id] /= "unscheduled")
            ~> Recorded(scan_id, Terminal)
    /\ [][\A scan_id \in 1..MaxScans :
            Recorded(scan_id, Terminal) => Recorded(scan_id, Terminal)']_vars

=============================================================================
